---- MODULE Spec2Model ----
(***************************************************************************)
(* Model of the energy_pdf_report integration: the statistics aggregation  *)
(* and energy-balance reconciliation engine of                             *)
(* custom_components/energy_pdf_report/__init__.py.                         *)
(*                                                                         *)
(* Conventions.  A Python Optional is a sequence of length 0 or 1: None is *)
(* << >> and a present value v is <<v>>.  Energy quantities (Python floats  *)
(* read from the recorder) are integers counted in a fixed small unit; the *)
(* recorder stores only finite numbers.  A dict is a function whose DOMAIN *)
(* is the set of its keys.  Formatting of the report text (units, number   *)
(* formatting, translations) is not part of the model.                     *)
(***************************************************************************)
EXTENDS Integers, Sequences, FiniteSets, TLC

None == << >>

Some(v) == <<v>>

\* Python's max(a, b): the first argument unless the second is greater.
Max(a, b) == IF b > a THEN b ELSE a

\* Python's min(a, b): the first argument unless the second is smaller.
Min(a, b) == IF b < a THEN b ELSE a

(***************************************************************************)
(* Bounds of the model.                                                    *)
(***************************************************************************)
\* Most entries of a list of dashboards in the manager data.
MaxDashboards == 2

\* Deepest nesting of wrappers around a preferences blob in the manager data.
MaxDepth == 2

\* Longest list of metrics handed to the aggregator and the reconciler.
MaxMetrics == 3

\* The number of pieces a filename pattern is made of.
MaxPieces == 2

\* The number of report requests that run at the same time.
MaxRequests == 2

\* The number of config entries of the domain.
MaxEntries == 3

\* The number of config entries of the domain when a config flow starts.
MaxFlowEntries == 2

\* The number of calls of async_setup, async_setup_entry and
\* async_unload_entry in a row.
MaxSetupCalls == 8

\* Longest list of metrics of a report whose totals are aggregated.
MaxReportMetrics == 2

\* Most bucket rows the recorder returns for one statistics query.
MaxRows == 2

\* Most entries of energy_sources in the preferences handed to the walker.
MaxSources == 2

\* Longest distance, in days, from the start date to an explicit end date.
MaxSpanDays == 7

\* Largest magnitude of a total handed directly to the reconciler.
MaxTotal == 2

(***************************************************************************)
(* Categories and statistic identifiers.                                   *)
(***************************************************************************)
\* The six categories of the balance vocabulary (keys of the category map).
VocabCategories ==
    { "Production solaire", "Import réseau", "Export réseau",
      "Consommation appareils", "Charge batterie", "Décharge batterie" }

\* Categories the walker assigns that are outside the balance vocabulary.
OtherCategories ==
    { "Coût réseau", "Compensation réseau", "Consommation gaz", "Coût gaz",
      "Consommation eau", "Coût eau", "Émissions CO₂" }

Categories == VocabCategories \cup OtherCategories

Slots == { "production", "imported", "exported", "consumption", "charge", "discharge" }

_CONCLUSION_CATEGORY_MAP ==
    [ c \in VocabCategories |->
        CASE c = "Production solaire" -> "production"
          [] c = "Import réseau" -> "imported"
          [] c = "Export réseau" -> "exported"
          [] c = "Consommation appareils" -> "consumption"
          [] c = "Charge batterie" -> "charge"
          [] c = "Décharge batterie" -> "discharge" ]

MetricDefinition(category, statistic_id) ==
    [ category |-> category, statistic_id |-> statistic_id ]

(***************************************************************************)
(* Totals aggregator: _calculate_totals.                                   *)
(* A StatisticsRow is modelled by its "change" field alone: None when the  *)
(* key is absent or null, <<v>> otherwise.                                 *)
(***************************************************************************)
StatisticIdsOf(ms) == { ms[i].statistic_id : i \in 1..Len(ms) }

\* The inner loop over the rows of one identifier: the pair
\* (change_total, has_change) after rows i..Len(rows) have been visited.
RECURSIVE SumRowChanges(_, _, _)
SumRowChanges(rows, i, acc) ==
    IF i > Len(rows) THEN acc
    ELSE LET change_value == rows[i]
         IN IF change_value = None
            THEN SumRowChanges(rows, i + 1, acc)
            ELSE SumRowChanges(rows, i + 1,
                     [ change_total |-> acc.change_total + change_value[1],
                       has_change |-> TRUE ])

\* Whether the loop over stats.items() assigns totals[statistic_id].
OverwritesTotal(stats, statistic_id) ==
    /\ statistic_id \in DOMAIN stats
    /\ stats[statistic_id] # << >>
    /\ SumRowChanges(stats[statistic_id], 1,
           [ change_total |-> 0, has_change |-> FALSE ]).has_change

\* The dict the function starts from: one 0.0 entry per metric.
DefaultTotalKeys_NoDefaults(ms) == {}

DefaultTotalKeys(ms) == StatisticIdsOf(ms)

_calculate_totals(ms, stats) ==
    LET keys == DefaultTotalKeys(ms)
                  \cup { id \in DOMAIN stats : OverwritesTotal(stats, id) }
    IN [ id \in keys |->
           IF OverwritesTotal(stats, id)
           THEN SumRowChanges(stats[id], 1,
                    [ change_total |-> 0, has_change |-> FALSE ]).change_total
           ELSE 0 ]

(***************************************************************************)
(* Energy balance reconciler: _prepare_conclusion_summary.                 *)
(***************************************************************************)
ZeroCategoryTotals == [ s \in Slots |-> 0 ]

\* One iteration of the loop over the metrics, with a metric whose total is
\* zero skipped as if it had no total.
_accumulate_metric_SkipZero(acc, metric, totals_) ==
    IF metric.category \notin DOMAIN _CONCLUSION_CATEGORY_MAP THEN acc
    ELSE IF metric.statistic_id \notin DOMAIN totals_ THEN acc
    ELSE IF totals_[metric.statistic_id] = 0 THEN acc
    ELSE LET key == _CONCLUSION_CATEGORY_MAP[metric.category]
         IN [ category_totals |->
                  [ acc.category_totals EXCEPT ![key] = @ + totals_[metric.statistic_id] ],
              has_values |-> TRUE ]

\* One iteration of the loop over the metrics (lines 1912-1922).
_accumulate_metric(acc, metric, totals_) ==
    IF metric.category \notin DOMAIN _CONCLUSION_CATEGORY_MAP THEN acc
    ELSE IF metric.statistic_id \notin DOMAIN totals_ THEN acc
    ELSE LET key == _CONCLUSION_CATEGORY_MAP[metric.category]
         IN [ category_totals |->
                  [ acc.category_totals EXCEPT ![key] = @ + totals_[metric.statistic_id] ],
              has_values |-> TRUE ]

RECURSIVE AccumulateCategoryTotals(_, _, _, _)
AccumulateCategoryTotals(ms, totals_, i, acc) ==
    IF i > Len(ms) THEN acc
    ELSE AccumulateCategoryTotals(ms, totals_, i + 1,
             _accumulate_metric(acc, ms[i], totals_))

direct_self_consumption_Unclamped(production, exported, charge) ==
    production - Max(exported, 0) - Max(charge, 0)

direct_self_consumption(production, exported, charge) ==
    Max(production - Max(exported, 0) - Max(charge, 0), 0)

battery_detected_ChargeOnly(ms) ==
    \E i \in 1..Len(ms) : ms[i].category = "Charge batterie"

battery_detected(ms) ==
    \E i \in 1..Len(ms) : ms[i].category \in { "Charge batterie", "Décharge batterie" }

indirect_self_consumption(ms, discharge, charge) ==
    IF battery_detected(ms) THEN Some(Max(Min(discharge, charge), 0)) ELSE None

total_estimated_consumption_NoCharge(production, imported, discharge, exported, charge) ==
    production + imported + discharge - exported

total_estimated_consumption(production, imported, discharge, exported, charge) ==
    production + imported + discharge - exported - charge

untracked_consumption(total_estimated, consumption) ==
    Max(total_estimated - consumption, 0)

\* None, or <<ConclusionSummary>>.
_prepare_conclusion_summary(ms, totals_) ==
    LET acc == AccumulateCategoryTotals(ms, totals_, 1,
                   [ category_totals |-> ZeroCategoryTotals, has_values |-> FALSE ])
        production == acc.category_totals["production"]
        imported == acc.category_totals["imported"]
        exported == acc.category_totals["exported"]
        consumption == acc.category_totals["consumption"]
        charge == acc.category_totals["charge"]
        discharge == acc.category_totals["discharge"]
        total_estimated ==
            total_estimated_consumption(production, imported, discharge, exported, charge)
    IN IF ~acc.has_values THEN None
       ELSE Some([ production |-> production,
                   imported |-> imported,
                   exported |-> exported,
                   consumption |-> consumption,
                   charge |-> charge,
                   discharge |-> discharge,
                   direct |-> direct_self_consumption(production, exported, charge),
                   indirect |-> indirect_self_consumption(ms, discharge, charge),
                   total_estimated_consumption |-> total_estimated,
                   untracked_consumption |->
                       untracked_consumption(total_estimated, consumption),
                   has_battery |-> battery_detected(ms) ])

(***************************************************************************)
(* Source configuration walker: _build_metrics.                            *)
(* A statistic field of a source, flow or device is a string; "" stands    *)
(* for a key that is absent, None or empty (all are skipped by _add).      *)
(* The walker's state is the pair (metrics, seen) of the closure _add.     *)
(***************************************************************************)
_add_NoSeenCheck(st, statistic_id, category) ==
    IF statistic_id = "" THEN st
    ELSE [ metrics |-> Append(st.metrics, MetricDefinition(category, statistic_id)),
           seen |-> st.seen \cup { statistic_id } ]

_add(st, statistic_id, category) ==
    IF statistic_id = "" \/ statistic_id \in st.seen THEN st
    ELSE [ metrics |-> Append(st.metrics, MetricDefinition(category, statistic_id)),
           seen |-> st.seen \cup { statistic_id } ]

_add_co2_stat(st, container, co2_enabled_) ==
    IF ~co2_enabled_ THEN st
    ELSE _add(st, container.stat_co2, "Émissions CO₂")

\* for flow in source.get("flow_from", [])
RECURSIVE WalkFlowFrom(_, _, _, _)
WalkFlowFrom(st, flows, i, co2_enabled_) ==
    IF i > Len(flows) THEN st
    ELSE LET flow == flows[i]
             s1 == _add(st, flow.stat_energy_from, "Import réseau")
             s2 == _add(s1, flow.stat_cost, "Coût réseau")
             s3 == _add_co2_stat(s2, flow, co2_enabled_)
         IN WalkFlowFrom(s3, flows, i + 1, co2_enabled_)

\* for flow in source.get("flow_to", [])
RECURSIVE WalkFlowTo(_, _, _, _)
WalkFlowTo(st, flows, i, co2_enabled_) ==
    IF i > Len(flows) THEN st
    ELSE LET flow == flows[i]
             s1 == _add(st, flow.stat_energy_to, "Export réseau")
             s2 == _add(s1, flow.stat_compensation, "Compensation réseau")
             s3 == _add_co2_stat(s2, flow, co2_enabled_)
         IN WalkFlowTo(s3, flows, i + 1, co2_enabled_)

\* The body of the loop over energy_sources: the dispatch on the type, then
\* the source's own CO2 statistic.
WalkSource(st, source, co2_enabled_) ==
    LET typed ==
          CASE source.type = "grid" ->
                 WalkFlowTo(WalkFlowFrom(st, source.flow_from, 1, co2_enabled_),
                            source.flow_to, 1, co2_enabled_)
            [] source.type = "solar" ->
                 _add(st, source.stat_energy_from, "Production solaire")
            [] source.type = "battery" ->
                 _add(_add(st, source.stat_energy_from, "Décharge batterie"),
                      source.stat_energy_to, "Charge batterie")
            [] source.type = "gas" ->
                 _add(_add(st, source.stat_energy_from, "Consommation gaz"),
                      source.stat_cost, "Coût gaz")
            [] source.type = "water" ->
                 _add(_add(st, source.stat_energy_from, "Consommation eau"),
                      source.stat_cost, "Coût eau")
            [] OTHER -> st
    IN _add_co2_stat(typed, source, co2_enabled_)

RECURSIVE WalkSources(_, _, _, _)
WalkSources(st, sources, i, co2_enabled_) ==
    IF i > Len(sources) THEN st
    ELSE WalkSources(WalkSource(st, sources[i], co2_enabled_), sources, i + 1,
                     co2_enabled_)

\* for device in preferences.get("device_consumption", [])
RECURSIVE WalkDevices(_, _, _, _)
WalkDevices(st, devices, i, co2_enabled_) ==
    IF i > Len(devices) THEN st
    ELSE LET device == devices[i]
             s1 == _add(st, device.stat_consumption, "Consommation appareils")
             s2 == _add_co2_stat(s1, device, co2_enabled_)
         IN WalkDevices(s2, devices, i + 1, co2_enabled_)

\* Sources first, devices second.
WalkPreferences(prefs, co2_enabled_) ==
    WalkDevices(
        WalkSources([ metrics |-> << >>, seen |-> {} ], prefs.energy_sources, 1,
                    co2_enabled_),
        prefs.device_consumption, 1, co2_enabled_)

_build_metrics(prefs, co2_enabled_) == WalkPreferences(prefs, co2_enabled_).metrics

(***************************************************************************)
(* Calendar arithmetic of datetime.date, as the period resolver uses it.   *)
(* A date is a record [year, month, day]; a timedelta is a number of       *)
(* seconds.                                                                *)
(***************************************************************************)
SecondsPerDay == 24 * 60 * 60

SecondsPerHour == 60 * 60

Date(y, m, d) == [ year |-> y, month |-> m, day |-> d ]

isleap(year) == year % 4 = 0 /\ (year % 100 # 0 \/ year % 400 = 0)

mdays == << 31, 28, 31, 30, 31, 30, 31, 31, 30, 31, 30, 31 >>

\* calendar.monthrange(year, month)[1]: the number of days of the month.
monthrange(year, month) ==
    mdays[month] + (IF month = 2 /\ isleap(year) THEN 1 ELSE 0)

_days_before_year(year) ==
    LET y == year - 1 IN y * 365 + (y \div 4) - (y \div 100) + (y \div 400)

RECURSIVE _days_before_month(_, _)
_days_before_month(year, month) ==
    IF month = 1 THEN 0
    ELSE _days_before_month(year, month - 1) + monthrange(year, month - 1)

toordinal(d) == _days_before_year(d.year) + _days_before_month(d.year, d.month) + d.day

RECURSIVE MonthOfYearDay(_, _, _)
MonthOfYearDay(year, month, n) ==
    IF n <= monthrange(year, month) THEN Date(year, month, n)
    ELSE MonthOfYearDay(year, month + 1, n - monthrange(year, month))

\* date.fromordinal: the 400/100/4/1-year cycles of _ord2ymd.
fromordinal(ordinal) ==
    LET n0 == ordinal - 1
        n400 == n0 \div 146097
        r400 == n0 % 146097
        n100 == r400 \div 36524
        r100 == r400 % 36524
        n4 == r100 \div 1461
        r4 == r100 % 1461
        n1 == r4 \div 365
        r1 == r4 % 365
        year == n400 * 400 + 1 + n100 * 100 + n4 * 4 + n1
    IN IF n1 = 4 \/ n100 = 4 THEN Date(year - 1, 12, 31)
       ELSE MonthOfYearDay(year, 1, r1 + 1)

\* date.weekday(): Monday is 0.
weekday(d) == (toordinal(d) + 6) % 7

\* date + timedelta(days=k)
AddDays(d, k) == fromordinal(toordinal(d) + k)

\* date < date: the comparison of the (year, month, day) triples.
DateLess(a, b) ==
    \/ a.year < b.year
    \/ a.year = b.year /\ a.month < b.month
    \/ a.year = b.year /\ a.month = b.month /\ a.day < b.day

(***************************************************************************)
(* Time zones.  A zone has a standard UTC offset and may observe the       *)
(* European summer time rule (last Sunday of March 02:00 to last Sunday of *)
(* October 03:00, local time).  Its tzinfo is either a zoneinfo object,    *)
(* whose offset follows the wall clock, or a pytz zone, whose localize()   *)
(* pins the offset of the localized instant.                               *)
(* An aware datetime is [ord, secs, utcoffset]: ordinal of the local       *)
(* day, second of that day, UTC offset in seconds.  A UTC datetime is the  *)
(* number of seconds since 1970-01-01T00:00:00Z.                           *)
(***************************************************************************)
LastSunday(year, month) ==
    LET last == Date(year, month, monthrange(year, month))
    IN AddDays(last, 0 - ((weekday(last) + 1) % 7))

utcoffset(tz, ord, secs) ==
    IF ~tz.dst THEN tz.std
    ELSE LET d == fromordinal(ord)
             s == toordinal(LastSunday(d.year, 3))
             e == toordinal(LastSunday(d.year, 10))
             summer == /\ (ord > s \/ (ord = s /\ secs >= 2 * SecondsPerHour))
                       /\ (ord < e \/ (ord = e /\ secs < 3 * SecondsPerHour))
         IN IF summer THEN tz.std + SecondsPerHour ELSE tz.std

\* datetime.combine(day, time.min), then localize() or replace(tzinfo=...).
_localize_date(day, tz) ==
    [ ord |-> toordinal(day), secs |-> 0, utcoffset |-> utcoffset(tz, toordinal(day), 0) ]

\* aware datetime + timedelta: wall-clock arithmetic; a zoneinfo offset is
\* read again from the new wall time, a pytz offset stays as localized.
AddSeconds(dt, delta, tz) ==
    LET total == dt.secs + delta
        ord == dt.ord + (total \div SecondsPerDay)
        secs == total % SecondsPerDay
    IN [ ord |-> ord, secs |-> secs,
         utcoffset |-> IF tz.kind = "zoneinfo" THEN utcoffset(tz, ord, secs)
                       ELSE dt.utcoffset ]

\* The ordinal of 1970-01-01, from which UTC datetimes are counted.
EpochOrdinal == toordinal(Date(1970, 1, 1))

\* dt_util.as_utc
as_utc(dt) == (dt.ord - EpochOrdinal) * SecondsPerDay + dt.secs - dt.utcoffset

\* aware - aware: the wall-clock difference when both carry the same tzinfo
\* object (zoneinfo), the difference of the instants otherwise (pytz).
SubDatetimes(a, b, tz) ==
    IF tz.kind = "zoneinfo"
    THEN (a.ord - b.ord) * SecondsPerDay + a.secs - b.secs
    ELSE as_utc(a) - as_utc(b)

\* datetime.date()
DateOf(dt) == fromordinal(dt.ord)

(***************************************************************************)
(* Period resolver: _select_bucket and _resolve_period.                    *)
(***************************************************************************)
DEFAULT_PERIOD == "day"

VALID_PERIODS == { "day", "week", "month" }

\* str.lower() on the period strings the model feeds in.
Lower(text) ==
    CASE text = "DAY" -> "day"
      [] text = "Week" -> "week"
      [] text = "MONTH" -> "month"
      [] text = "Year" -> "year"
      [] OTHER -> text

\* The bucket chosen from the span alone, whatever the period.
_select_bucket_SpanOnly(period, start_local, end_local_exclusive, tz) ==
    LET span == SubDatetimes(end_local_exclusive, start_local, tz)
    IN IF span <= 2 * SecondsPerDay THEN "hour"
       ELSE IF span <= 35 * SecondsPerDay THEN "day"
       ELSE "month"

\* period is None for a value that is not a string, <<text>> for a string.
_select_bucket(period, start_local, end_local_exclusive, tz) ==
    LET normalized == IF period # None THEN Lower(period[1]) ELSE ""
        span == SubDatetimes(end_local_exclusive, start_local, tz)
    IN IF normalized = "day" THEN "hour"
       ELSE IF normalized = "week" THEN "day"
       ELSE IF normalized = "month" THEN "day"
       ELSE IF span <= 2 * SecondsPerDay THEN "hour"
       ELSE IF span <= 35 * SecondsPerDay THEN "day"
       ELSE "month"

\* Lines 964-972, with today as the start of a period that is not supported.
DefaultStartDate_TodayOtherwise(period, now_date) ==
    IF period = "week" THEN Some(AddDays(now_date, 0 - weekday(now_date)))
    ELSE IF period = "month" THEN Some(Date(now_date.year, now_date.month, 1))
    ELSE Some(now_date)

\* Lines 964-972: None when the period is not supported.
DefaultStartDate(period, now_date) ==
    IF period = "day" THEN Some(now_date)
    ELSE IF period = "week" THEN Some(AddDays(now_date, 0 - weekday(now_date)))
    ELSE IF period = "month" THEN Some(Date(now_date.year, now_date.month, 1))
    ELSE None

\* Lines 974-983, with a week that ends seven days after its start.
DefaultEndDate_WeekOfEightDays(period, start_date) ==
    IF period = "day" THEN start_date
    ELSE IF period = "week" THEN AddDays(start_date, 7)
    ELSE IF period = "month"
         THEN Date(start_date.year, start_date.month,
                   monthrange(start_date.year, start_date.month))
    ELSE start_date

\* Lines 974-983.
DefaultEndDate(period, start_date) ==
    IF period = "day" THEN start_date
    ELSE IF period = "week" THEN AddDays(start_date, 6)
    ELSE IF period = "month"
         THEN Date(start_date.year, start_date.month,
                   monthrange(start_date.year, start_date.month))
    ELSE start_date

\* Line 985, with the comparison left out.
EndBeforeStart_Never(end_date, start_date) == FALSE

\* Line 985.
EndBeforeStart(end_date, start_date) == DateLess(end_date, start_date)

\* The UTC upper bound taken from the inclusive end.
QueryEndUtc_Inclusive(end_local, end_local_exclusive) == as_utc(end_local)

\* Line 998: the UTC upper bound is the exclusive end.
QueryEndUtc(end_local, end_local_exclusive) == as_utc(end_local_exclusive)

PeriodError(message) == [ error |-> message, value |-> None ]

\* Lines 988-1007, once the two dates are known.
ResolveWindow(period, start_date, end_date, tz) ==
    LET start_local == _localize_date(start_date, tz)
        end_local == _localize_date(end_date, tz)
        end_local_exclusive == AddSeconds(end_local, SecondsPerDay, tz)
        start_utc == as_utc(start_local)
        end_utc == QueryEndUtc(end_local, end_local_exclusive)
        display_end == AddSeconds(end_local_exclusive, 0 - 1, tz)
    IN [ error |-> "",
         value |-> Some([ start_utc |-> start_utc,
                          end_utc |-> end_utc,
                          start_local |-> start_local,
                          display_end |-> display_end,
                          bucket |-> _select_bucket(Some(period), start_local,
                                                    end_local_exclusive, tz) ]) ]

\* call_data: [period, start_date, end_date], each None or <<value>>.
_resolve_period(call_data_, now_date, tz) ==
    LET period == IF call_data_.period = None THEN DEFAULT_PERIOD
                  ELSE call_data_.period[1]
        start_opt == IF call_data_.start_date # None THEN call_data_.start_date
                     ELSE DefaultStartDate(period, now_date)
    IN IF start_opt = None THEN PeriodError("Période non supportée")
       ELSE LET start_date == start_opt[1]
                end_date == IF call_data_.end_date # None THEN call_data_.end_date[1]
                            ELSE DefaultEndDate(period, start_date)
            IN IF EndBeforeStart(end_date, start_date)
               THEN PeriodError("La date de fin doit être postérieure à la date de début.")
               ELSE ResolveWindow(period, start_date, end_date, tz)

(***************************************************************************)
(* Dashboard discovery and selection.                                      *)
(*                                                                         *)
(* A Python value of the energy manager is a record                        *)
(*   [kind, text, num, items]                                              *)
(* kind "none", "str" (text), "int" (num), "list" (items: the elements),   *)
(* "dict" (items: the entries [key, value] in insertion order) or "object" *)
(* (items: the attributes [key, value]).                                   *)
(***************************************************************************)
PyNone == [ kind |-> "none", text |-> "", num |-> 0, items |-> << >> ]

PyStr(t) == [ kind |-> "str", text |-> t, num |-> 0, items |-> << >> ]

PyInt(n) == [ kind |-> "int", text |-> "", num |-> n, items |-> << >> ]

PyList(elements) == [ kind |-> "list", text |-> "", num |-> 0, items |-> elements ]

PyDict(entries) == [ kind |-> "dict", text |-> "", num |-> 0, items |-> entries ]

PyObject(attributes) == [ kind |-> "object", text |-> "", num |-> 0, items |-> attributes ]

Entry(k, v) == [ key |-> k, value |-> v ]

\* key in mapping / hasattr(object, key)
HasKey(container, k) == \E i \in 1..Len(container.items) : container.items[i].key = k

\* mapping[key] / getattr(object, key)
GetItem(container, k) ==
    container.items[CHOOSE i \in 1..Len(container.items) : container.items[i].key = k].value

\* mapping.get(key) / getattr(object, key, None)
GetOrNone(container, k) == IF HasKey(container, k) THEN GetItem(container, k) ELSE PyNone

\* str.strip() on the strings the model feeds in.
strip(text) ==
    CASE text = " main " -> "main"
      [] text = " MAIN " -> "MAIN"
      [] text = " " -> ""
      [] text = " sensor.a " -> "sensor.a"
      [] text = " sk-key " -> "sk-key"
      [] text = " Advice " -> "Advice"
      [] text = " Roof " -> "Roof"
      [] OTHER -> text

\* str.casefold() on the strings the model feeds in.
casefold(text) ==
    CASE text = "Main" -> "main"
      [] text = "MAIN" -> "main"
      [] text = "Home" -> "home"
      [] text = "Other" -> "other"
      [] text = " MAIN " -> " main "
      [] OTHER -> text

\* str(value) of a string or of a small integer.
str(value) ==
    IF value.kind = "str" THEN value.text
    ELSE << "0", "1", "2", "3", "4", "5", "6", "7", "8", "9" >>[value.num + 1]

DashboardSelection(identifier, name, prefs) ==
    [ identifier |-> identifier, name |-> name, preferences |-> prefs ]

_is_energy_preferences_EitherKey(candidate) ==
    /\ candidate.kind = "dict"
    /\ \/ HasKey(candidate, "energy_sources")
       \/ HasKey(candidate, "device_consumption")

_is_energy_preferences(candidate) ==
    /\ candidate.kind = "dict"
    /\ HasKey(candidate, "energy_sources")
    /\ HasKey(candidate, "device_consumption")

\* Lines 816-826; value is None or <<text>>.
_normalize_dashboard_key(value) ==
    IF value = None THEN None
    ELSE LET normalized == strip(value[1])
         IN IF normalized = "" THEN None ELSE Some(casefold(normalized))

\* Lines 829-837; requested is a normalized text.
_match_dashboard_key_IdentifierOnly(selection, requested) ==
    LET normalized == _normalize_dashboard_key(selection.identifier)
    IN normalized # None /\ normalized[1] = requested

_match_dashboard_key(selection, requested) ==
    \E candidate \in { selection.identifier, selection.name } :
        LET normalized == _normalize_dashboard_key(candidate)
        IN normalized # None /\ normalized[1] = requested

\* Lines 736-741 and 782-788: the first of dashboard_id, id, slug, key that is
\* present and not None, as text; the fallback when there is none.
RECURSIVE FirstIdentifier(_, _, _, _)
FirstIdentifier(container, keys, i, fallback_id) ==
    IF i > Len(keys) THEN fallback_id
    ELSE IF GetOrNone(container, keys[i]).kind # "none"
         THEN Some(str(GetOrNone(container, keys[i])))
         ELSE FirstIdentifier(container, keys, i + 1, fallback_id)

\* Lines 743-748 and 790-796: the first of name, title, label that is a string
\* with something else than white space in it.
RECURSIVE FirstName(_, _, _, _)
FirstName(container, keys, i, fallback_name) ==
    IF i > Len(keys) THEN fallback_name
    ELSE LET value == GetOrNone(container, keys[i])
         IN IF value.kind = "str" /\ strip(value.text) # ""
            THEN Some(value.text)
            ELSE FirstName(container, keys, i + 1, fallback_name)

IdentifierKeys == << "dashboard_id", "id", "slug", "key" >>

NameKeys == << "name", "title", "label" >>

SkippedKeys ==
    { "preferences", "dashboards", "dashboard", "energy_sources", "device_consumption" }

RECURSIVE _extract_named_preferences(_, _, _)
RECURSIVE ExtractEntries(_, _, _, _)
RECURSIVE ExtractElements(_, _, _, _)

\* Lines 763-770: the entries of a mapping other than the keys already read.
ExtractEntries(entries, i, current_id, current_name) ==
    IF i > Len(entries) THEN << >>
    ELSE LET key == entries[i].key
             value == entries[i].value
             next_id == IF key \notin { "name", "title", "label" }
                        THEN Some(key) ELSE current_id
             here == IF key \notin SkippedKeys /\ value.kind \in { "dict", "list" }
                     THEN _extract_named_preferences(value, next_id, current_name)
                     ELSE << >>
         IN here \o ExtractEntries(entries, i + 1, current_id, current_name)

\* Lines 774-777: the elements of a list.
ExtractElements(elements, i, fallback_id, fallback_name) ==
    IF i > Len(elements) THEN << >>
    ELSE _extract_named_preferences(elements[i], fallback_id, fallback_name)
         \o ExtractElements(elements, i + 1, fallback_id, fallback_name)

\* fallback_id and fallback_name are None or <<text>>.  The identifiers read
\* by str(value) are strings or small integers.
_extract_named_preferences(candidate, fallback_id, fallback_name) ==
    IF candidate.kind = "none" THEN << >>
    ELSE IF _is_energy_preferences(candidate)
    THEN << DashboardSelection(fallback_id, fallback_name, candidate) >>
    ELSE IF candidate.kind = "dict"
    THEN LET current_id == FirstIdentifier(candidate, IdentifierKeys, 1, fallback_id)
             current_name == FirstName(candidate, NameKeys, 1, fallback_name)
             Under(key) ==
                 IF HasKey(candidate, key)
                 THEN _extract_named_preferences(GetItem(candidate, key),
                                                 current_id, current_name)
                 ELSE << >>
         IN Under("preferences") \o Under("dashboards") \o Under("dashboard")
            \o ExtractEntries(candidate.items, 1, current_id, current_name)
    ELSE IF candidate.kind = "list"
    THEN ExtractElements(candidate.items, 1, fallback_id, fallback_name)
    ELSE IF candidate.kind = "object"
            /\ (HasKey(candidate, "preferences") \/ HasKey(candidate, "data"))
    THEN LET attr == IF HasKey(candidate, "preferences") THEN "preferences" ELSE "data"
             current_id == FirstIdentifier(candidate, IdentifierKeys, 1, fallback_id)
             current_name == FirstName(candidate, NameKeys, 1, fallback_name)
         IN _extract_named_preferences(GetItem(candidate, attr), current_id, current_name)
    ELSE << >>

\* Lines 683-708: keep the valid selections, one per (identifier, name).
RECURSIVE Deduplicate(_, _, _)
Deduplicate(selections, i, deduped) ==
    IF i > Len(selections) THEN deduped
    ELSE LET selection == selections[i]
             Same(index) ==
                 /\ deduped[index].identifier = selection.identifier
                 /\ deduped[index].name = selection.name
             found == { index \in 1..Len(deduped) : Same(index) }
             existing_index == CHOOSE index \in found : \A other \in found : index <= other
             current == deduped[existing_index]
             replace ==
                 \/ current.identifier = None /\ selection.identifier # None
                 \/ current.name = None /\ selection.name # None
         IN IF ~_is_energy_preferences(selection.preferences)
            THEN Deduplicate(selections, i + 1, deduped)
            ELSE IF found = {}
            THEN Deduplicate(selections, i + 1, Append(deduped, selection))
            ELSE IF replace
            THEN Deduplicate(selections, i + 1,
                             [ deduped EXCEPT ![existing_index] = selection ])
            ELSE Deduplicate(selections, i + 1, deduped)

\* The manager is an object; its attribute data holds the stored preferences.
_collect_dashboard_preferences(manager) ==
    LET data == GetOrNone(manager, "data")
        OfAttribute(attr) ==
            IF HasKey(manager, attr)
            THEN _extract_named_preferences(GetItem(manager, attr), None, None)
            ELSE << >>
        OfKey(key) ==
            IF data.kind = "dict" /\ HasKey(data, key)
            THEN _extract_named_preferences(GetItem(data, key), None, None)
            ELSE << >>
        selections ==
            _extract_named_preferences(data, None, None)
            \o OfAttribute("dashboards") \o OfAttribute("dashboard")
            \o OfKey("dashboards") \o OfKey("dashboard")
    IN Deduplicate(selections, 1, << >>)

MarkerKeys == << "selected_dashboard", "default_dashboard", "active_dashboard" >>

\* Lines 845-852: None, or <<the first dashboard the marker value matches>>.
_find_match(value, dashboards) ==
    LET normalized ==
            _normalize_dashboard_key(IF value.kind = "none" THEN None
                                     ELSE Some(str(value)))
        matching == { index \in 1..Len(dashboards) :
                        normalized # None
                        /\ _match_dashboard_key(dashboards[index], normalized[1]) }
    IN IF matching = {} THEN None
       ELSE Some(dashboards[CHOOSE index \in matching :
                                \A other \in matching : index <= other])

\* Lines 854-866: the markers of manager.data first, then those of the manager.
RECURSIVE FirstMarked(_, _, _)
FirstMarked(container, i, dashboards) ==
    IF i > Len(MarkerKeys) THEN None
    ELSE LET selection ==
                 IF HasKey(container, MarkerKeys[i])
                 THEN _find_match(GetItem(container, MarkerKeys[i]), dashboards)
                 ELSE None
         IN IF selection # None THEN selection
            ELSE FirstMarked(container, i + 1, dashboards)

\* The first dashboard, whatever the host marks.
_pick_default_dashboard_IgnoreMarkers(manager, dashboards) == dashboards[1]

_pick_default_dashboard(manager, dashboards) ==
    LET data == GetOrNone(manager, "data")
        in_data == IF data.kind = "dict" THEN FirstMarked(data, 1, dashboards) ELSE None
        in_manager == FirstMarked(manager, 1, dashboards)
    IN IF in_data # None THEN in_data[1]
       ELSE IF in_manager # None THEN in_manager[1]
       ELSE dashboards[1]

method_names ==
    << "async_get_dashboard", "async_get_dashboard_preferences",
       "async_get_dashboard_by_id", "async_get_dashboard_by_slug", "get_dashboard" >>

\* What one call of a manager method does: the call raises TypeError, the call
\* raises another exception, the call returns a value (awaited when it is
\* awaitable), or the call returns an awaitable that raises when awaited.
TypeErrorOutcome == [ kind |-> "TypeError", result |-> PyNone ]

ExceptionOutcome == [ kind |-> "Exception", result |-> PyNone ]

Returns(value) == [ kind |-> "returns", result |-> value ]

AwaitRaises == [ kind |-> "await_raises", result |-> PyNone ]

\* The outcome of a selection: a raised error, or a value.
Raised(message) == [ error |-> message, value |-> None ]

Returned(value) == [ error |-> "", value |-> value ]

DashboardNotFound == "Aucun tableau de bord énergie nommé '{requested_dashboard}' n'a été trouvé."

NoDashboardConfigured == "Le tableau de bord énergie n'est pas encore configuré."

\* The exception of a manager method, raised by the await of line 904.
ManagerMethodError == "exception raised by the awaited manager method"

\* Lines 906-924: the selection read from the result of one probe, or None.
SelectionOfResult(result, dashboard_id) ==
    LET selections == _extract_named_preferences(result, Some(dashboard_id), None)
        requested == _normalize_dashboard_key(Some(dashboard_id))
        matching == { index \in 1..Len(selections) :
                        requested # None
                        /\ _match_dashboard_key(selections[index], requested[1]) }
        chosen == IF matching # {}
                  THEN selections[CHOOSE index \in matching :
                                      \A other \in matching : index <= other]
                  ELSE selections[1]
    IN IF selections # << >>
       THEN IF chosen.identifier = None
            THEN Some(DashboardSelection(Some(dashboard_id), chosen.name,
                                         chosen.preferences))
            ELSE Some(chosen)
       ELSE IF _is_energy_preferences(result)
       THEN Some(DashboardSelection(Some(dashboard_id), None, result))
       ELSE None

\* Probe i is method (i + 1) \div 2 called with (dashboard_id,) when i is odd
\* and with (hass, dashboard_id) when i is even.  methods maps a method
\* name to None (no such callable) or to <<the outcomes of the two calls>>.
RECURSIVE ProbeMethods(_, _, _)
ProbeMethods(methods, dashboard_id, i) ==
    IF i > 2 * Len(method_names) THEN Returned(None)
    ELSE LET method == methods[method_names[(i + 1) \div 2]]
             outcome == method[1][2 - (i % 2)]
             selection == SelectionOfResult(outcome.result, dashboard_id)
         IN IF method = None THEN ProbeMethods(methods, dashboard_id, i + 1)
            ELSE IF outcome.kind \in { "TypeError", "Exception" }
            THEN ProbeMethods(methods, dashboard_id, i + 1)
            ELSE IF outcome.kind = "await_raises"
            THEN Raised(ManagerMethodError)
            ELSE IF selection # None THEN Returned(selection)
            ELSE ProbeMethods(methods, dashboard_id, i + 1)

_async_fetch_dashboard_preferences_via_methods(methods, dashboard_id) ==
    ProbeMethods(methods, dashboard_id, 1)

\* Lines 649-651.
NoMatchOutcome(dashboards) == Raised(DashboardNotFound)

\* requested_dashboard is None or <<text>>.
_async_select_dashboard_preferences(manager, methods, requested_dashboard) ==
    LET dashboards == _collect_dashboard_preferences(manager)
        normalized == _normalize_dashboard_key(requested_dashboard)
        matching == { index \in 1..Len(dashboards) :
                        normalized # None
                        /\ _match_dashboard_key(dashboards[index], normalized[1]) }
        fetched == _async_fetch_dashboard_preferences_via_methods(
                       methods, requested_dashboard[1])
        data == GetOrNone(manager, "data")
    IN IF requested_dashboard # None /\ requested_dashboard[1] # ""
       THEN IF matching # {}
            THEN Returned(Some(dashboards[CHOOSE index \in matching :
                                              \A other \in matching : index <= other]))
            ELSE IF fetched.error # "" THEN fetched
            ELSE IF fetched.value # None THEN fetched
            ELSE NoMatchOutcome(dashboards)
       ELSE IF dashboards # << >>
       THEN Returned(Some(_pick_default_dashboard(manager, dashboards)))
       ELSE IF _is_energy_preferences(data)
       THEN Returned(Some(DashboardSelection(None, None, data)))
       ELSE Raised(NoDashboardConfigured)

(***************************************************************************)
(* Auxiliary collectors: the CO2 and price sensors of the options and the  *)
(* totals _collect_co2_statistics and _collect_price_statistics read for   *)
(* them.  An option key goes by the name of its constant.                  *)
(***************************************************************************)
\* One slot of CO2_SENSOR_CONFIG or PRICE_SENSOR_CONFIG: the option key, the
\* translation key, the saving or credit flag and the default entity id.  A
\* default the constants module does not define goes by the name of its constant.
SensorConfig(option_key, translation_key, flag, default_entity) ==
    [ option_key |-> option_key, translation_key |-> translation_key, flag |-> flag,
      default_entity |-> default_entity ]

CO2_SENSOR_CONFIG ==
    << SensorConfig("CONF_CO2_ELECTRICITY", "co2_electricity", FALSE,
                    "sensor.co2_emissions_today"),
       SensorConfig("CONF_CO2_GAS", "co2_gas", FALSE, "sensor.co2_gaz_jour"),
       SensorConfig("CONF_CO2_WATER", "co2_water", FALSE, "sensor.co2_eau_jour"),
       SensorConfig("CONF_CO2_SAVINGS", "co2_savings", TRUE,
                    "sensor.co2_savings_today") >>

PRICE_SENSOR_CONFIG ==
    << SensorConfig("CONF_PRICE_ELECTRICITY_IMPORT", "price_electricity_import", FALSE,
                    "DEFAULT_PRICE_ELECTRICITY_IMPORT_SENSOR"),
       SensorConfig("CONF_PRICE_ELECTRICITY_EXPORT", "price_electricity_export", TRUE,
                    "DEFAULT_PRICE_ELECTRICITY_EXPORT_SENSOR"),
       SensorConfig("CONF_PRICE_GAS", "price_gas", FALSE,
                    "sensor.ecopilotmasterp1v1ext_total_gaz_cost"),
       SensorConfig("CONF_PRICE_WATER", "price_water", FALSE,
                    "sensor.ecopilotmasterp1v1ext_total_water_cost") >>

\* CO2SensorDefinition and PriceSensorDefinition.
SensorDefinition(entity_id, translation_key, flag) ==
    [ entity_id |-> entity_id, translation_key |-> translation_key, flag |-> flag ]

\* Lines 345-358 and 372-385.  sensor_options maps an option key to None (no
\* string is set) or <<text>>.
RECURSIVE BuildSensorDefinitions(_, _, _)
BuildSensorDefinitions(config, sensor_options, i) ==
    IF i > Len(config) THEN << >>
    ELSE LET value == sensor_options[config[i].option_key]
             override == IF value # None THEN strip(value[1]) ELSE ""
             rest == BuildSensorDefinitions(config, sensor_options, i + 1)
         IN IF override = "" THEN rest
            ELSE << SensorDefinition(override, config[i].translation_key,
                                     config[i].flag) >> \o rest

_build_co2_sensor_definitions(enabled, sensor_options) ==
    IF ~enabled THEN << >> ELSE BuildSensorDefinitions(CO2_SENSOR_CONFIG, sensor_options, 1)

_build_price_sensor_definitions(enabled, sensor_options) ==
    IF ~enabled THEN << >> ELSE BuildSensorDefinitions(PRICE_SENSOR_CONFIG, sensor_options, 1)

\* entity_map: the last definition of each entity_id.
EntityMap(definitions) ==
    [ entity_id \in { definitions[i].entity_id : i \in 1..Len(definitions) } |->
        definitions[CHOOSE i \in 1..Len(definitions) :
                        /\ definitions[i].entity_id = entity_id
                        /\ \A j \in 1..Len(definitions) :
                              definitions[j].entity_id = entity_id => j <= i] ]

\* Lines 1290-1332 and 1343-1385: the totals by translation key, given the
\* rows the recorder returns for the entity ids.
CollectSensorTotals(definitions, rows_by_id) ==
    LET entity_map == EntityMap(definitions)
        Sum(entity_id) ==
            SumRowChanges(rows_by_id[entity_id], 1,
                          [ change_total |-> 0, has_change |-> FALSE ])
        Assigned(entity_id) ==
            /\ entity_id \in DOMAIN rows_by_id
            /\ rows_by_id[entity_id] # << >>
            /\ Sum(entity_id).has_change
    IN [ translation_key \in { definitions[i].translation_key : i \in 1..Len(definitions) } |->
           LET assigning == { entity_id \in DOMAIN entity_map :
                                /\ entity_map[entity_id].translation_key = translation_key
                                /\ Assigned(entity_id) }
           IN IF assigning = {} THEN 0
              ELSE Sum(CHOOSE entity_id \in assigning : TRUE).change_total ]

_collect_co2_statistics(sensors, rows_by_id) == CollectSensorTotals(sensors, rows_by_id)

_collect_price_statistics(sensors, rows_by_id) == CollectSensorTotals(sensors, rows_by_id)

(***************************************************************************)
(* Advisory text: generate_advice of ecopilot_pdf_report/ai_helper.py.     *)
(* The result of a Python expression is a value or a raised exception.     *)
(***************************************************************************)
\* The apostrophe of the source is a typographic one.
FALLBACK_MESSAGE == "La fonction n'est pas active actuellement."

Value(v) == [ raises |-> "", value |-> v ]

Raises(exception) == [ raises |-> exception, value |-> PyNone ]

\* The first character of the texts the model feeds in.
FirstCharacter(text) == IF text = "abc" THEN "a" ELSE text

\* container[key] for the key "choices" (key.kind = "str") and the index 0
\* (key.kind = "int").  The mappings of the model have string keys only.
Subscript(container, key) ==
    CASE container.kind = "dict" ->
             IF key.kind = "str" /\ HasKey(container, key.text)
             THEN Value(GetItem(container, key.text))
             ELSE Raises("KeyError")
      [] container.kind = "list" ->
             IF key.kind # "int" THEN Raises("TypeError")
             ELSE IF key.num < Len(container.items)
             THEN Value(container.items[key.num + 1])
             ELSE Raises("IndexError")
      [] container.kind = "str" ->
             IF key.kind # "int" THEN Raises("TypeError")
             ELSE IF container.text # ""
             THEN Value(PyStr(FirstCharacter(container.text)))
             ELSE Raises("IndexError")
      [] OTHER -> Raises("TypeError")

\* receiver.get(key, default): only a mapping has the method.
GetMethod(receiver, key, default) ==
    IF receiver.kind # "dict" THEN Raises("AttributeError")
    ELSE IF HasKey(receiver, key) THEN Value(GetItem(receiver, key))
    ELSE Value(default)

\* Lines 118-124: the text parts of a content list, joined.
RECURSIVE JoinTextParts(_, _)
JoinTextParts(content_items, i) ==
    IF i > Len(content_items) THEN ""
    ELSE LET item == content_items[i]
             text_part == IF item.kind = "dict" THEN GetOrNone(item, "text") ELSE PyNone
         IN (IF text_part.kind = "str" THEN text_part.text ELSE "")
            \o JoinTextParts(content_items, i + 1)

\* Lines 115-126.
AdviceOfContent(content) ==
    IF content.kind = "str" THEN strip(content.text)
    ELSE IF content.kind = "list" THEN strip(JoinTextParts(content.items, 1))
    ELSE ""

\* The exceptions the clause of line 111 catches.
StructureErrors == { "KeyError", "IndexError", "TypeError" }

\* Lines 107-131: the advice read from the decoded body.
AdviceOfData(data) ==
    LET choices == Subscript(data, PyStr("choices"))
        choice == Subscript(choices.value, PyInt(0))
        message == GetMethod(choice.value, "message", PyDict(<< >>))
        content == GetMethod(message.value, "content", PyNone)
        failed == IF choices.raises # "" THEN choices.raises
                  ELSE IF choice.raises # "" THEN choice.raises
                  ELSE IF message.raises # "" THEN message.raises
                  ELSE content.raises
        advice_text == AdviceOfContent(content.value)
    IN IF failed \in StructureErrors THEN Returned(Some(FALLBACK_MESSAGE))
       ELSE IF failed # "" THEN Raised(failed)
       ELSE IF advice_text = "" THEN Returned(Some(FALLBACK_MESSAGE))
       ELSE Returned(Some(advice_text))

\* What the request of lines 84-99 comes to.
\*   failure  "" or the exception session.post raises
\*   ok       whether the status is 200
\*   decoding "" or the exception response.json() raises: the ClientError
\*            of a wrong content type, the ValueError (JSONDecodeError) of a
\*            body that is not JSON, the TimeoutError of a read that lasts
\*   data     the decoded body
Response(failure, ok, decoding, data) ==
    [ failure |-> failure, ok |-> ok, decoding |-> decoding, data |-> data ]

\* The exceptions the clauses of lines 100-105 catch.
RequestErrors == { "TimeoutError", "ClientError" }

\* Lines 83-131: the rest of generate_advice once the request is answered.
AdviceOfResponse(response_) ==
    IF response_.failure \in RequestErrors THEN Returned(Some(FALLBACK_MESSAGE))
    ELSE IF response_.failure # "" THEN Raised(response_.failure)
    ELSE IF ~response_.ok THEN Returned(Some(FALLBACK_MESSAGE))
    ELSE IF response_.decoding \in RequestErrors THEN Returned(Some(FALLBACK_MESSAGE))
    ELSE IF response_.decoding # "" THEN Raised(response_.decoding)
    ELSE AdviceOfData(response_.data)

\* A request goes out whatever the credential.
SkipsRequest_Never(api_key_, conclusion_) == FALSE

\* Lines 53-60: no request for a blank credential or a blank conclusion.
\* api_key_ and conclusion_ are None or <<text>>.
SkipsRequest(api_key_, conclusion_) ==
    LET normalized_api_key == strip(IF api_key_ # None THEN api_key_[1] ELSE "")
        conclusion_text == strip(IF conclusion_ # None THEN conclusion_[1] ELSE "")
    IN normalized_api_key = "" \/ conclusion_text = ""

(***************************************************************************)
(* Statistics collection: _collect_statistics and the recorder.            *)
(*                                                                         *)
(* The text of a TypeError is the set of the hints it contains once        *)
(* lowered: the helpers below only search the text for these hints.        *)
(***************************************************************************)
LegacySignatureHints == { "multiple values", "positional argument", "unexpected keyword" }

RequiresHassHints ==
    { "missing 1 required positional argument", "unhashable type", "homeassistant" }

_metadata_error_indicates_legacy_signature(message) ==
    \E hint \in LegacySignatureHints : hint \in message

_metadata_error_indicates_requires_hass(message) ==
    \E hint \in RequiresHassHints : hint \in message

\* Lines 166-179.  cached is the module flag _RECORDER_METADATA_REQUIRES_HASS:
\* None or <<BOOLEAN>>; signature is what inspect.signature finds of
\* get_metadata: "hass" (a parameter hass), "legacy" (none) or "unknown"
\* (the inspection fails).
_recorder_metadata_requires_hass(cached, signature) ==
    IF cached # None THEN cached[1]
    ELSE IF signature = "unknown" THEN TRUE
    ELSE signature = "hass"

\* The cached convention that no retry ever updates.
_set_recorder_metadata_requires_hass_Keep(cached, value) == cached

\* Lines 182-186: the module flag after the call.
_set_recorder_metadata_requires_hass(cached, value) == Some(value)

RecorderUnavailable == "Le composant recorder doit être actif pour générer le rapport."

\* A call of get_metadata returns, or raises an exception of a type, with a
\* text.
MetadataReturned == [ raises |-> "", message |-> {} ]

MetadataRaises(type, message) == [ raises |-> type, message |-> message ]

\* A TypeError of the first lookup that is never answered by a retry.
AfterTypeError_NeverRetry(metadata_requires_hass, message) == "raise"

\* Lines 1212-1231: what follows a TypeError of the first lookup: "retry_legacy",
\* "retry_hass" or "raise".
AfterTypeError(metadata_requires_hass, message) ==
    IF metadata_requires_hass /\ _metadata_error_indicates_legacy_signature(message)
    THEN "retry_legacy"
    ELSE IF ~metadata_requires_hass /\ _metadata_error_indicates_requires_hass(message)
    THEN "retry_hass"
    ELSE "raise"

\* Lines 1237-1261: the name of one statistic after the enrichment.  name,
\* state_name and registry_name are None or <<text>>.
EnrichedName(statistic_id, name, state_name, registry_name) ==
    LET current_name_str == IF name # None THEN strip(name[1]) ELSE ""
        friendly_name ==
            IF state_name # None /\ strip(state_name[1]) # ""
            THEN Some(strip(state_name[1]))
            ELSE IF registry_name # None /\ registry_name[1] # ""
            THEN Some(strip(registry_name[1]))
            ELSE None
    IN IF current_name_str # "" /\ current_name_str # statistic_id THEN name
       ELSE IF friendly_name # None /\ friendly_name[1] # "" THEN friendly_name
       ELSE name

\* Lines 1233-1261: the metadata after the enrichment.  metadata maps a
\* statistic id to its name; names_ holds the names of the states and of the
\* entity registry.
EnrichMetadata(metadata, names_) ==
    [ statistic_id \in DOMAIN metadata |->
        EnrichedName(statistic_id, metadata[statistic_id],
                     IF statistic_id \in DOMAIN names_.states
                     THEN names_.states[statistic_id] ELSE None,
                     IF statistic_id \in DOMAIN names_.registry
                     THEN names_.registry[statistic_id] ELSE None) ]

\* statistics_during_period: the rows of the statistic ids asked for.
RowsOf(recorder_rows_, statistic_ids) ==
    [ statistic_id \in DOMAIN recorder_rows_ \cap statistic_ids |->
        recorder_rows_[statistic_id] ]

\* The lookup of the recorder instance whatever the metrics.
EmptyIdentifiers_Never(ms) == FALSE

\* Lines 1181-1183.
EmptyIdentifiers(ms) == StatisticIdsOf(ms) = {}

(***************************************************************************)
(* The name of the output file: lines 1505-1539 of _build_pdf.  A text is  *)
(* the sequence of its characters, so that str.format, str.strip,          *)
(* str.lower and str.endswith are computed on it.                          *)
(***************************************************************************)
Digits == << "0", "1", "2", "3", "4", "5", "6", "7", "8", "9" >>

\* The decimal digits of n, padded with zeros to a width.
RECURSIVE Padded(_, _)
Padded(n, width) ==
    IF width = 0 THEN << >>
    ELSE Append(Padded(n \div 10, width - 1), Digits[(n % 10) + 1])

\* date.isoformat().
isoformat(d) ==
    Padded(d.year, 4) \o << "-" >> \o Padded(d.month, 2) \o << "-" >> \o Padded(d.day, 2)

\* str.lower() of one character, on the letters the model feeds in.
LowerChar(c) ==
    CASE c = "P" -> "p"
      [] c = "D" -> "d"
      [] c = "F" -> "f"
      [] c = "R" -> "r"
      [] OTHER -> c

lower(text) == [ i \in 1..Len(text) |-> LowerChar(text[i]) ]

RECURSIVE lstrip(_)
lstrip(text) ==
    IF text # << >> /\ Head(text) = " " THEN lstrip(Tail(text)) ELSE text

RECURSIVE rstrip(_)
rstrip(text) ==
    IF text # << >> /\ text[Len(text)] = " "
    THEN rstrip(SubSeq(text, 1, Len(text) - 1))
    ELSE text

\* str.strip() of a sequence of characters.
StripText(text) == rstrip(lstrip(text))

endswith(text, suffix) ==
    /\ Len(text) >= Len(suffix)
    /\ SubSeq(text, Len(text) - Len(suffix) + 1, Len(text)) = suffix

PdfSuffix == << ".", "p", "d", "f" >>

\* Lines 1513-1517: the values str.format is given.
FormatContext(display_start_, display_end_, period_) ==
    [ start |-> isoformat(display_start_), end |-> isoformat(display_end_),
      period |-> period_ ]

\* The keys of the context, as texts.
ContextValue(context, name) ==
    CASE name = << "s", "t", "a", "r", "t" >> -> Some(context.start)
      [] name = << "e", "n", "d" >> -> Some(context.end)
      [] name = << "p", "e", "r", "i", "o", "d" >> -> Some(context.period)
      [] OTHER -> None

Formatted(text) == [ error |-> "", text |-> text ]

FormatError(type, arg) == [ error |-> type, text |-> arg ]

\* The position of the first character c of text from position i on; 0 if none.
RECURSIVE Find(_, _, _)
Find(text, c, i) ==
    IF i > Len(text) THEN 0
    ELSE IF text[i] = c THEN i
    ELSE Find(text, c, i + 1)

IsIndex(name) == \A i \in 1..Len(name) : \E k \in 1..10 : name[i] = Digits[k]

\* str.format(**context) from position i of the pattern on, out being what is
\* formatted so far.  The fields are looked up from left to right, and the
\* first failure is raised: ValueError for a brace alone or a brace within a
\* field, IndexError for a field with no name or a number, KeyError for a name
\* the context lacks, AttributeError for an attribute of a value.
RECURSIVE FormatFrom(_, _, _, _)
FormatFrom(pattern, context, i, out) ==
    IF i > Len(pattern) THEN Formatted(out)
    ELSE IF pattern[i] = "{"
    THEN IF i < Len(pattern) /\ pattern[i + 1] = "{"
         THEN FormatFrom(pattern, context, i + 2, Append(out, "{"))
         ELSE LET close == Find(pattern, "}", i + 1)
                  open == Find(pattern, "{", i + 1)
                  field == SubSeq(pattern, i + 1, close - 1)
                  dot == Find(field, ".", 1)
                  name == IF dot = 0 THEN field ELSE SubSeq(field, 1, dot - 1)
              IN IF close = 0 THEN FormatError("ValueError", << >>)
                 ELSE IF open # 0 /\ open < close THEN FormatError("ValueError", << >>)
                 ELSE IF IsIndex(name) THEN FormatError("IndexError", << >>)
                 ELSE IF ContextValue(context, name) = None
                 THEN FormatError("KeyError", name)
                 ELSE IF dot # 0 THEN FormatError("AttributeError", << >>)
                 ELSE FormatFrom(pattern, context, close + 1,
                                 out \o ContextValue(context, name)[1])
    ELSE IF pattern[i] = "}"
    THEN IF i < Len(pattern) /\ pattern[i + 1] = "}"
         THEN FormatFrom(pattern, context, i + 2, Append(out, "}"))
         ELSE FormatError("ValueError", << >>)
    ELSE FormatFrom(pattern, context, i + 1, Append(out, pattern[i]))

format(pattern, context) == FormatFrom(pattern, context, 1, << >>)

UnknownPlaceholder == "Le modèle de nom de fichier contient un espace réservé inconnu: "

EmptyFilename == "Le modèle de nom de fichier a généré un nom vide."

\* Lines 1533-1537.
EnsurePdfSuffix(name) ==
    IF endswith(lower(name), PdfSuffix) THEN name ELSE name \o PdfSuffix

\* Lines 1507-1537: the name of the file, or the error raised.  filename_ is
\* None or <<text>>.
ResolveFilename(filename_, filename_pattern_, context) ==
    LET supplied == IF filename_ # None THEN StripText(filename_[1]) ELSE << >>
        expansion == format(filename_pattern_, context)
    IN IF supplied # << >> THEN Returned(EnsurePdfSuffix(supplied))
       ELSE IF expansion.error = "KeyError" THEN Raised(UnknownPlaceholder)
       ELSE IF expansion.error # "" THEN Raised(expansion.error)
       ELSE IF StripText(expansion.text) = << >> THEN Raised(EmptyFilename)
       ELSE Returned(EnsurePdfSuffix(StripText(expansion.text)))

(***************************************************************************)
(* State.                                                                  *)
(*   pc            where the request (or the call under study) stands      *)
(*   preferences   the energy preferences of the selected dashboard        *)
(*   co2_enabled   the effective CO2 flag handed to the walker             *)
(*   metrics       the list of MetricDefinition                            *)
(*   stats_map     recorder rows per statistic identifier                  *)
(*   totals        the totals map handed to the reconciler                 *)
(*   summary       None, or <<ConclusionSummary>>                          *)
(*   call_data     the service data read by the period resolver            *)
(*   now_date      the local date of dt_util.now()                         *)
(*   timezone      the time zone _select_timezone returns                  *)
(*   resolved      the outcome of _resolve_period                          *)
(*   bucket_args   the arguments of a direct _select_bucket call           *)
(*   bucket        the bucket that call returned ("" before it)            *)
(*   manager       the energy manager: an object with its attributes       *)
(*   methods       the lookup methods of the manager and what they do      *)
(*   requested_dashboard  the dashboard named in the service call          *)
(*   selection     the outcome of the dashboard selection                  *)
(*   sensor_kind   "co2" or "price": the auxiliary sensors looked at       *)
(*   sensor_enabled  the option co2_enabled (price_enabled) of the entry   *)
(*   sensor_options  the sensor entity ids of the options                  *)
(*   sensor_rows   the rows the recorder returns for the sensors           *)
(*   sensor_definitions  the sensor definitions built from the options     *)
(*   sensor_totals the totals by translation key                           *)
(*   api_key       the credential generate_advice is called with           *)
(*   conclusion    the conclusion text generate_advice is called with      *)
(*   response      what the request to the advisory service came to       *)
(*   network_requests  the number of requests started                      *)
(*   advice        the outcome of generate_advice                          *)
(***************************************************************************)
VARIABLES pc, preferences, co2_enabled, metrics, stats_map, totals, summary,
          call_data, now_date, timezone, resolved, bucket_args, bucket,
          manager, methods, requested_dashboard, selection,
          sensor_kind, sensor_enabled, sensor_options, sensor_rows,
          sensor_definitions, sensor_totals,
          api_key, conclusion, response, network_requests, advice,
          recorder, requires_hass_cache, metadata_requires_hass, metadata,
          recorder_calls, collected,
          filename, filename_pattern, display_dates, report_period,
          output_dir_made, written, built, pdf_fault, builder,
          handling, options, overrides, price_enabled, co2_definitions,
          price_definitions, co2_totals, price_totals, notifications, handler_error,
          aux_raises, requests,
          domain_data, service_registered, loaded, double_registrations, last_call, setup_calls,
          config_entries, _reconfigure_entry, _cached_existing_values, flow_result,
          flow_submitted, flow_removed, removal_result

balanceVars == << metrics, stats_map, totals, summary >>

walkerVars == << preferences, co2_enabled >>

periodVars == << call_data, now_date, timezone, resolved >>

bucketVars == << bucket_args, bucket >>

dashboardVars == << manager, methods, requested_dashboard, selection >>

sensorVars == << sensor_kind, sensor_enabled, sensor_options, sensor_rows,
                sensor_definitions, sensor_totals >>

adviceVars == << api_key, conclusion, response, network_requests, advice >>

collectVars == << recorder, requires_hass_cache, metadata_requires_hass, metadata,
                 recorder_calls, collected >>

pdfVars == << filename, filename_pattern, display_dates, report_period,
             output_dir_made, written, built, pdf_fault, builder >>

handlerVars == << handling, options, overrides, price_enabled, co2_definitions,
                 price_definitions, co2_totals, price_totals, notifications,
                 handler_error, aux_raises >>

requestVars == << requests >>

setupVars == << domain_data, service_registered, loaded, double_registrations, last_call, setup_calls >>

flowVars == << config_entries, _reconfigure_entry, _cached_existing_values,
              flow_result, flow_submitted, flow_removed, removal_result >>

\* The state of the parts of the service other than the four first.
serviceVars == << dashboardVars, sensorVars, adviceVars, collectVars, pdfVars,
                 handlerVars, requestVars, setupVars, flowVars >>

vars == << pc, preferences, co2_enabled, metrics, stats_map, totals, summary,
           call_data, now_date, timezone, resolved, bucket_args, bucket,
           manager, methods, requested_dashboard, selection,
           sensor_kind, sensor_enabled, sensor_options, sensor_rows,
           sensor_definitions, sensor_totals,
           api_key, conclusion, response, network_requests, advice,
           recorder, requires_hass_cache, metadata_requires_hass, metadata,
           recorder_calls, collected,
           filename, filename_pattern, display_dates, report_period,
           output_dir_made, written, built, pdf_fault, builder,
           handling, options, overrides, price_enabled, co2_definitions,
           price_definitions, co2_totals, price_totals, notifications, handler_error,
           aux_raises, requests,
           domain_data, service_registered, loaded, double_registrations, last_call, setup_calls,
           config_entries, _reconfigure_entry, _cached_existing_values, flow_result,
           flow_submitted, flow_removed, removal_result >>

EmptyMap == [ id \in {} |-> 0 ]

UTC == [ kind |-> "zoneinfo", std |-> 0, dst |-> FALSE ]

IdleBalance ==
    /\ metrics = << >>
    /\ stats_map = EmptyMap
    /\ totals = EmptyMap
    /\ summary = None

IdleWalker ==
    /\ preferences = [ energy_sources |-> << >>, device_consumption |-> << >> ]
    /\ co2_enabled = FALSE

IdlePeriod ==
    /\ call_data = [ period |-> None, start_date |-> None, end_date |-> None ]
    /\ now_date = Date(2024, 1, 1)
    /\ timezone = UTC
    /\ resolved = PeriodError("")

IdleBucket ==
    /\ bucket_args = [ period |-> None,
                       start_local |-> _localize_date(Date(2024, 1, 1), UTC),
                       end_local_exclusive |-> _localize_date(Date(2024, 1, 1), UTC) ]
    /\ bucket = ""

NoMethods == [ name \in { method_names[i] : i \in 1..Len(method_names) } |-> None ]

IdleDashboard ==
    /\ manager = PyObject(<< Entry("data", PyNone) >>)
    /\ methods = NoMethods
    /\ requested_dashboard = None
    /\ selection = Raised("")

SensorConfigOf(kind) == IF kind = "co2" THEN CO2_SENSOR_CONFIG ELSE PRICE_SENSOR_CONFIG

OptionKeysOf(kind) == { SensorConfigOf(kind)[i].option_key : i \in 1..4 }

IdleSensors ==
    /\ sensor_kind = "co2"
    /\ sensor_enabled = FALSE
    /\ sensor_options = [ key \in OptionKeysOf("co2") |-> None ]
    /\ sensor_rows = EmptyMap
    /\ sensor_definitions = << >>
    /\ sensor_totals = EmptyMap

NoResponse == Response("", FALSE, "", PyNone)

IdleAdvice ==
    /\ api_key = None
    /\ conclusion = None
    /\ response = NoResponse
    /\ network_requests = 0
    /\ advice = Raised("")

\* A recorder that is not running and has nothing stored.
NoRecorder ==
    [ active |-> FALSE, signature |-> "hass",
      with_hass |-> MetadataReturned, legacy |-> MetadataReturned,
      metadata |-> EmptyMap,
      names |-> [ states |-> EmptyMap, registry |-> EmptyMap ],
      rows |-> EmptyMap ]

IdleCollect ==
    /\ recorder = NoRecorder
    /\ requires_hass_cache = None
    /\ metadata_requires_hass = FALSE
    /\ metadata = EmptyMap
    /\ recorder_calls = << >>
    /\ collected = Raised("")

\* No EnergyPDFBuilder exists.  A temporary directory of a builder is "none"
\* (not created), "held" or "released".
NoBuilder == [ created |-> FALSE, font_cache |-> "none", assets_cache |-> "none" ]

IdlePdf ==
    /\ filename = None
    /\ filename_pattern = << >>
    /\ display_dates = [ start |-> Date(2024, 1, 1), end |-> Date(2024, 1, 1) ]
    /\ report_period = << >>
    /\ output_dir_made = FALSE
    /\ written = None
    /\ built = Raised("")
    /\ pdf_fault = ""
    /\ builder = NoBuilder

\* The options of an entry that sets nothing.
NoOptions ==
    [ default_report_type |-> None, co2 |-> None, price |-> None,
      filename_pattern |-> None, openai_api_key |-> None ]

IdleHandler ==
    /\ handling = FALSE
    /\ options = NoOptions
    /\ overrides = [ co2 |-> None, price |-> None ]
    /\ price_enabled = FALSE
    /\ co2_definitions = << >>
    /\ price_definitions = << >>
    /\ co2_totals = EmptyMap
    /\ price_totals = EmptyMap
    /\ notifications = 0
    /\ handler_error = ""
    /\ aux_raises = [ co2 |-> "", price |-> "" ]

\* No report request is under way.
IdleRequests == requests = << >>

\* Home Assistant has just started: hass.data has no entry for the domain, no
\* service is registered and no config entry is loaded.
IdleSetup ==
    /\ domain_data = None
    /\ service_registered = FALSE
    /\ loaded = {}
    /\ double_registrations = 0
    /\ last_call = ""
    /\ setup_calls = 0

\* No config flow is in progress and the domain has no config entry.
IdleFlow ==
    /\ config_entries = << >>
    /\ _reconfigure_entry = << >>
    /\ _cached_existing_values = << >>
    /\ flow_result = [ type |-> "none", step_id |-> "", defaults |-> << >>,
                       reason |-> "", data |-> << >> ]
    /\ flow_submitted = << >>
    /\ flow_removed = << >>
    /\ removal_result = ""

IdleService == IdleDashboard /\ IdleSensors /\ IdleAdvice /\ IdleCollect /\ IdlePdf /\ IdleHandler /\ IdleRequests /\ IdleSetup /\ IdleFlow

\* What an action leaves alone: every group of variables but those it owns.
Frame(owned) ==
    /\ IF "balance" \in owned THEN TRUE ELSE UNCHANGED balanceVars
    /\ IF "walker" \in owned THEN TRUE ELSE UNCHANGED walkerVars
    /\ IF "period" \in owned THEN TRUE ELSE UNCHANGED periodVars
    /\ IF "bucket" \in owned THEN TRUE ELSE UNCHANGED bucketVars
    /\ IF "dashboard" \in owned THEN TRUE ELSE UNCHANGED dashboardVars
    /\ IF "sensors" \in owned THEN TRUE ELSE UNCHANGED sensorVars
    /\ IF "advice" \in owned THEN TRUE ELSE UNCHANGED adviceVars
    /\ IF "collect" \in owned THEN TRUE ELSE UNCHANGED collectVars
    /\ IF "pdf" \in owned THEN TRUE ELSE UNCHANGED pdfVars
    /\ IF "handler" \in owned THEN TRUE ELSE UNCHANGED handlerVars
    /\ IF "requests" \in owned THEN TRUE ELSE UNCHANGED requestVars
    /\ IF "setup" \in owned THEN TRUE ELSE UNCHANGED setupVars
    /\ IF "flow" \in owned THEN TRUE ELSE UNCHANGED flowVars

\* The initial value of every group of variables but those named.
Idle(owned) ==
    /\ IF "balance" \in owned THEN TRUE ELSE IdleBalance
    /\ IF "walker" \in owned THEN TRUE ELSE IdleWalker
    /\ IF "period" \in owned THEN TRUE ELSE IdlePeriod
    /\ IF "bucket" \in owned THEN TRUE ELSE IdleBucket
    /\ IF "dashboard" \in owned THEN TRUE ELSE IdleDashboard
    /\ IF "sensors" \in owned THEN TRUE ELSE IdleSensors
    /\ IF "advice" \in owned THEN TRUE ELSE IdleAdvice
    /\ IF "collect" \in owned THEN TRUE ELSE IdleCollect
    /\ IF "pdf" \in owned THEN TRUE ELSE IdlePdf
    /\ IF "handler" \in owned THEN TRUE ELSE IdleHandler
    /\ IF "requests" \in owned THEN TRUE ELSE IdleRequests
    /\ IF "setup" \in owned THEN TRUE ELSE IdleSetup
    /\ IF "flow" \in owned THEN TRUE ELSE IdleFlow

(***************************************************************************)
(* Inputs of the aggregator and of the reconciler.                         *)
(***************************************************************************)
SeqsUpTo(S, n) == UNION { [ 1..k -> S ] : k \in 0..n }

PartialMaps(K, V) == UNION { [ D -> V ] : D \in SUBSET K }

StatIds == { "sensor.a", "sensor.b" }

\* The vocabulary and one category outside it.
InputCategories == VocabCategories \cup { "Consommation gaz" }

MetricInputs ==
    SeqsUpTo({ MetricDefinition(c, id) : c \in InputCategories, id \in StatIds },
             MaxMetrics)

\* Totals a caller may hand to the reconciler: any sign, any subset of keys.
TotalsInputs == PartialMaps(StatIds, (0 - MaxTotal)..MaxTotal)

\* The "change" of a bucket row: absent/null, a negative and a positive delta.
ChangeInputs == { None, Some(0 - 1), Some(2) }

RECURSIVE FnSum(_)
FnSum(f) ==
    IF DOMAIN f = {} THEN 0
    ELSE LET x == CHOOSE y \in DOMAIN f : TRUE
         IN f[x] + FnSum([ y \in DOMAIN f \ { x } |-> f[y] ])

\* Rows per identifier, for some of the identifiers (an identifier may have
\* no entry, or an empty list of rows).
StatsInputs ==
    { st \in PartialMaps(StatIds, SeqsUpTo(ChangeInputs, MaxRows)) :
        FnSum([ id \in DOMAIN st |-> Len(st[id]) ]) <= MaxRows }

ReportMetricInputs ==
    SeqsUpTo({ MetricDefinition(c, id) : c \in InputCategories, id \in StatIds },
             MaxReportMetrics)

\* The worked example of the balance: one metric per slot.
ExampleMetrics ==
    << MetricDefinition("Production solaire", "sensor.production"),
       MetricDefinition("Export réseau", "sensor.exported"),
       MetricDefinition("Charge batterie", "sensor.charge"),
       MetricDefinition("Décharge batterie", "sensor.discharge"),
       MetricDefinition("Import réseau", "sensor.imported"),
       MetricDefinition("Consommation appareils", "sensor.consumption") >>

ExampleTotals ==
    [ id \in StatisticIdsOf(ExampleMetrics) |->
        CASE id = "sensor.production" -> 10
          [] id = "sensor.exported" -> 2
          [] id = "sensor.charge" -> 3
          [] id = "sensor.discharge" -> 1
          [] id = "sensor.imported" -> 5
          [] id = "sensor.consumption" -> 9 ]

(***************************************************************************)
(* SpecReconcile: _prepare_conclusion_summary called with any metrics and  *)
(* any totals.                                                             *)
(***************************************************************************)
InitReconcile ==
    /\ pc = "reconcile_call"
    /\ \/ metrics \in MetricInputs /\ totals \in TotalsInputs
       \/ metrics = ExampleMetrics /\ totals = ExampleTotals
    /\ stats_map = EmptyMap
    /\ summary = None
    /\ IdleWalker /\ IdlePeriod /\ IdleBucket /\ IdleService

PrepareConclusionSummary ==
    /\ pc = "reconcile_call"
    /\ summary' = _prepare_conclusion_summary(metrics, totals)
    /\ pc' = "reconciled"
    /\ UNCHANGED << metrics, stats_map, totals, walkerVars, periodVars, bucketVars,
                    serviceVars >>

NextReconcile == PrepareConclusionSummary

SpecReconcile == InitReconcile /\ [][NextReconcile]_vars

(***************************************************************************)
(* SpecTotals: lines 490 and 543 of the report handler, for any metrics    *)
(* and any rows the recorder returns: the totals are aggregated, then      *)
(* reconciled.                                                             *)
(***************************************************************************)
InitTotals ==
    /\ pc = "totals_call"
    /\ metrics \in ReportMetricInputs
    /\ stats_map \in StatsInputs
    /\ totals = EmptyMap
    /\ summary = None
    /\ IdleWalker /\ IdlePeriod /\ IdleBucket /\ IdleService

CalculateTotals ==
    /\ pc = "totals_call"
    /\ totals' = _calculate_totals(metrics, stats_map)
    /\ pc' = "totals_done"
    /\ UNCHANGED << metrics, stats_map, summary, walkerVars, periodVars, bucketVars,
                    serviceVars >>

ReconcileTotals ==
    /\ pc = "totals_done"
    /\ summary' = _prepare_conclusion_summary(metrics, totals)
    /\ pc' = "summary_done"
    /\ UNCHANGED << metrics, stats_map, totals, walkerVars, periodVars, bucketVars,
                    serviceVars >>

NextTotals == CalculateTotals \/ ReconcileTotals

SpecTotals == InitTotals /\ [][NextTotals]_vars

(***************************************************************************)
(* Reference quantities of the balance, read off the inputs.               *)
(***************************************************************************)
Pos(x) == IF x > 0 THEN x ELSE 0

\* The indices of the metrics that feed a slot: the metrics of the slot's
\* category that have a total.
SlotIndices(ms, tot, slot) ==
    { i \in 1..Len(ms) :
        /\ ms[i].category \in VocabCategories
        /\ _CONCLUSION_CATEGORY_MAP[ms[i].category] = slot
        /\ ms[i].statistic_id \in DOMAIN tot }

RefSlotSum(ms, tot, slot) ==
    FnSum([ i \in SlotIndices(ms, tot, slot) |-> tot[ms[i].statistic_id] ])

\* The sum of the non-null changes of the rows of one identifier.
RefChangeSum(stats, id) ==
    IF id \notin DOMAIN stats THEN 0
    ELSE FnSum([ i \in { j \in 1..Len(stats[id]) : stats[id][j] # None } |->
                   stats[id][i][1] ])

HasVocabMetric(ms) == \E i \in 1..Len(ms) : ms[i].category \in VocabCategories

Reconciled == pc \in { "reconciled", "summary_done" }

(***************************************************************************)
(* Claims on the reconciler and the aggregator.                            *)
(***************************************************************************)
\* C1: whenever _prepare_conclusion_summary returns a summary, for any
\* metrics and any totals (negative ones included), its untracked
\* consumption and its direct self-consumption are both >= 0.
C1_ClampedNonNegative ==
    (Reconciled /\ summary # None) =>
        /\ summary[1].untracked_consumption >= 0
        /\ summary[1].direct >= 0

\* A summary returned for totals whose raw differences are both negative.
C1_Witness ==
    /\ pc = "reconciled"
    /\ summary # None
    /\ summary[1].production - Pos(summary[1].exported) - Pos(summary[1].charge) < 0
    /\ summary[1].total_estimated_consumption - summary[1].consumption < 0
    /\ \E id \in DOMAIN totals : totals[id] < 0

\* C2: the returned direct, total_estimated_consumption and
\* untracked_consumption equal the reference derivation over the per-slot
\* sums of the totals; the worked example gives 5, 11 and 2.
C2_ReferenceDerivation ==
    (Reconciled /\ summary # None) =>
        LET P == RefSlotSum(metrics, totals, "production")
            I == RefSlotSum(metrics, totals, "imported")
            E == RefSlotSum(metrics, totals, "exported")
            U == RefSlotSum(metrics, totals, "consumption")
            C == RefSlotSum(metrics, totals, "charge")
            D == RefSlotSum(metrics, totals, "discharge")
        IN /\ summary[1].direct = Pos(P - Pos(E) - Pos(C))
           /\ summary[1].total_estimated_consumption = P + I + D - E - C
           /\ summary[1].untracked_consumption = Pos((P + I + D - E - C) - U)
           /\ (metrics = ExampleMetrics /\ totals = ExampleTotals) =>
                  /\ summary[1].direct = 5
                  /\ summary[1].total_estimated_consumption = 11
                  /\ summary[1].untracked_consumption = 2

\* The worked example has been reconciled.
C2_Witness ==
    /\ pc = "reconciled"
    /\ metrics = ExampleMetrics
    /\ totals = ExampleTotals
    /\ summary # None
    /\ summary[1].direct = 5

\* C3: in every returned summary, indirect self-consumption is defined iff
\* has_battery, has_battery holds exactly when some metric carries the
\* battery-charge or battery-discharge category, and a defined indirect
\* equals max(min(discharge, charge), 0).
C3_IndirectIffBattery ==
    (Reconciled /\ summary # None) =>
        LET C == RefSlotSum(metrics, totals, "charge")
            D == RefSlotSum(metrics, totals, "discharge")
            battery == \E i \in 1..Len(metrics) :
                           \/ metrics[i].category = "Charge batterie"
                           \/ metrics[i].category = "Décharge batterie"
        IN /\ summary[1].has_battery <=> battery
           /\ (summary[1].indirect # None) <=> summary[1].has_battery
           /\ (summary[1].indirect # None) =>
                  summary[1].indirect[1] = Pos(IF D < C THEN D ELSE C)

\* A battery known by its discharge metric alone, with a positive indirect
\* self-consumption.
C3_Witness ==
    /\ pc = "reconciled"
    /\ summary # None
    /\ summary[1].has_battery
    /\ \A i \in 1..Len(metrics) : metrics[i].category # "Charge batterie"
    /\ summary[1].indirect = Some(0)
    /\ summary[1].discharge > 0

\* C4: with the totals of the aggregator for the same metrics, the
\* reconciler returns None iff no metric's category is in the vocabulary;
\* otherwise every slot is the sum of the totals of its own category's
\* metrics only, and 0 for a category without metric.
C4_NullIffNoVocabMetric ==
    (pc = "summary_done") =>
        /\ (summary = None) <=> ~HasVocabMetric(metrics)
        /\ (summary # None) =>
               \A slot \in Slots :
                   /\ summary[1][slot] = RefSlotSum(metrics, totals, slot)
                   /\ (SlotIndices(metrics, totals, slot) = {}) => summary[1][slot] = 0

\* A summary whose vocabulary metrics all total 0.0 while a metric outside
\* the vocabulary has a non-zero total.
C4_Witness ==
    /\ pc = "summary_done"
    /\ summary # None
    /\ \A slot \in Slots : summary[1][slot] = 0
    /\ \E i \in 1..Len(metrics) :
           /\ metrics[i].category \notin VocabCategories
           /\ totals[metrics[i].statistic_id] # 0

\* C6: the result of _calculate_totals has the statistic_id of every metric;
\* its value is the sum of the non-null changes of that identifier's rows,
\* 0 when it has no rows or only rows without a change.
C6_TotalsForEveryMetric ==
    (pc \in { "totals_done", "summary_done" }) =>
        \A i \in 1..Len(metrics) :
            /\ metrics[i].statistic_id \in DOMAIN totals
            /\ totals[metrics[i].statistic_id] =
                   RefChangeSum(stats_map, metrics[i].statistic_id)

\* One metric without any entry in the rows map and one whose rows all lack
\* a change, both with total 0, next to rows that were summed.
C6_Witness ==
    /\ pc = "totals_done"
    /\ \E i, j \in 1..Len(metrics) :
           /\ metrics[i].statistic_id \notin DOMAIN stats_map
           /\ totals[metrics[i].statistic_id] = 0
           /\ metrics[j].statistic_id \in DOMAIN stats_map
           /\ Len(stats_map[metrics[j].statistic_id]) = 2
           /\ totals[metrics[j].statistic_id] = 1

(***************************************************************************)
(* SpecWalker: _build_metrics on the preferences of a dashboard.           *)
(***************************************************************************)
FlowFrom(energy, cost, co2) ==
    [ stat_energy_from |-> energy, stat_cost |-> cost, stat_co2 |-> co2 ]

FlowTo(energy, compensation, co2) ==
    [ stat_energy_to |-> energy, stat_compensation |-> compensation, stat_co2 |-> co2 ]

Source(type, energy_from, energy_to, cost, co2, flow_from, flow_to) ==
    [ type |-> type, stat_energy_from |-> energy_from, stat_energy_to |-> energy_to,
      stat_cost |-> cost, stat_co2 |-> co2, flow_from |-> flow_from, flow_to |-> flow_to ]

Device(consumption, co2) == [ stat_consumption |-> consumption, stat_co2 |-> co2 ]

FlowFromInputs ==
    { << >>,
      << FlowFrom("sensor.a", "sensor.b", "") >>,
      << FlowFrom("sensor.b", "", "sensor.a") >>,
      << FlowFrom("sensor.a", "", ""), FlowFrom("sensor.a", "sensor.b", "") >> }

FlowToInputs ==
    { << >>,
      << FlowTo("sensor.b", "sensor.a", "") >>,
      << FlowTo("sensor.a", "", "sensor.b") >> }

SourceInputs ==
    { Source("grid", "", "", "", "", ff, ft) : ff \in FlowFromInputs, ft \in FlowToInputs }
    \cup { Source("solar", e, "", "", c, << >>, << >>) :
             e \in { "", "sensor.a", "sensor.b" }, c \in { "", "sensor.a" } }
    \cup { Source("battery", e, t, "", "", << >>, << >>) :
             e \in { "", "sensor.a", "sensor.b" }, t \in { "sensor.a", "sensor.b" } }
    \cup { Source("gas", "sensor.a", "", "sensor.b", "", << >>, << >>),
           Source("gas", "sensor.b", "", "", "sensor.b", << >>, << >>),
           Source("water", "sensor.b", "", "sensor.a", "", << >>, << >>),
           Source("other", "sensor.a", "", "", "sensor.b", << >>, << >>) }

DeviceInputs ==
    { << >>,
      << Device("sensor.a", "") >>,
      << Device("sensor.b", "sensor.a") >>,
      << Device("sensor.a", "sensor.b"), Device("sensor.a", "") >> }

InitWalker ==
    /\ pc = "walk_call"
    /\ preferences \in [ energy_sources : SeqsUpTo(SourceInputs, MaxSources),
                         device_consumption : DeviceInputs ]
    /\ co2_enabled \in BOOLEAN
    /\ IdleBalance /\ IdlePeriod /\ IdleBucket /\ IdleService

BuildMetrics ==
    /\ pc = "walk_call"
    /\ metrics' = _build_metrics(preferences, co2_enabled)
    /\ pc' = "metrics_built"
    /\ UNCHANGED << stats_map, totals, summary, walkerVars, periodVars, bucketVars,
                    serviceVars >>

NextWalker == BuildMetrics

SpecWalker == InitWalker /\ [][NextWalker]_vars

(***************************************************************************)
(* The places of the preferences where the walker reads a statistic, each  *)
(* with the category it would give: [pos, id, category], pos being         *)
(* <<entry, part, flow, field>> in traversal order (sources in list order, *)
(* then devices).                                                          *)
(***************************************************************************)
Place(k, part, j, field, id, category) ==
    [ pos |-> << k, part, j, field >>, id |-> id, category |-> category ]

SourcePlaces(k, source, co2) ==
    ( IF source.type = "grid"
      THEN { Place(k, 1, j, 1, source.flow_from[j].stat_energy_from, "Import réseau") :
               j \in 1..Len(source.flow_from) }
           \cup { Place(k, 1, j, 2, source.flow_from[j].stat_cost, "Coût réseau") :
                    j \in 1..Len(source.flow_from) }
           \cup { Place(k, 1, j, 3, source.flow_from[j].stat_co2, "Émissions CO₂") :
                    j \in IF co2 THEN 1..Len(source.flow_from) ELSE {} }
           \cup { Place(k, 2, j, 1, source.flow_to[j].stat_energy_to, "Export réseau") :
                    j \in 1..Len(source.flow_to) }
           \cup { Place(k, 2, j, 2, source.flow_to[j].stat_compensation,
                        "Compensation réseau") : j \in 1..Len(source.flow_to) }
           \cup { Place(k, 2, j, 3, source.flow_to[j].stat_co2, "Émissions CO₂") :
                    j \in IF co2 THEN 1..Len(source.flow_to) ELSE {} }
      ELSE IF source.type = "solar"
      THEN { Place(k, 1, 1, 1, source.stat_energy_from, "Production solaire") }
      ELSE IF source.type = "battery"
      THEN { Place(k, 1, 1, 1, source.stat_energy_from, "Décharge batterie"),
             Place(k, 1, 1, 2, source.stat_energy_to, "Charge batterie") }
      ELSE IF source.type = "gas"
      THEN { Place(k, 1, 1, 1, source.stat_energy_from, "Consommation gaz"),
             Place(k, 1, 1, 2, source.stat_cost, "Coût gaz") }
      ELSE IF source.type = "water"
      THEN { Place(k, 1, 1, 1, source.stat_energy_from, "Consommation eau"),
             Place(k, 1, 1, 2, source.stat_cost, "Coût eau") }
      ELSE {} )
    \cup ( IF co2 THEN { Place(k, 3, 1, 1, source.stat_co2, "Émissions CO₂") } ELSE {} )

Places(prefs, co2) ==
    LET n == Len(prefs.energy_sources)
        all == UNION { SourcePlaces(k, prefs.energy_sources[k], co2) : k \in 1..n }
               \cup { Place(n + i, 1, 1, 1, prefs.device_consumption[i].stat_consumption,
                            "Consommation appareils") :
                        i \in 1..Len(prefs.device_consumption) }
               \cup { Place(n + i, 1, 1, 2, prefs.device_consumption[i].stat_co2,
                            "Émissions CO₂") :
                        i \in IF co2 THEN 1..Len(prefs.device_consumption) ELSE {} }
    IN { o \in all : o.id # "" }

Earlier(p, q) ==
    \E i \in 1..4 : p[i] < q[i] /\ \A j \in 1..(i - 1) : p[j] = q[j]

\* C5: no two entries of the _build_metrics output share a statistic_id; an
\* identifier read at several places appears exactly once, with the
\* category of its first place in traversal order.
C5_UniqueFirstCategory ==
    (pc = "metrics_built") =>
        LET places == Places(preferences, co2_enabled)
        IN /\ \A i, j \in 1..Len(metrics) :
                  metrics[i].statistic_id = metrics[j].statistic_id => i = j
           /\ \A o \in places : \E i \in 1..Len(metrics) : metrics[i].statistic_id = o.id
           /\ \A i \in 1..Len(metrics) :
                  \E o \in places :
                      /\ o.id = metrics[i].statistic_id
                      /\ o.category = metrics[i].category
                      /\ \A o2 \in places : o2.id = o.id => ~Earlier(o2.pos, o.pos)

\* An identifier read under three categories, in a flow, in another source
\* and in a device, kept once.
C5_Witness ==
    /\ pc = "metrics_built"
    /\ \E o1, o2, o3 \in Places(preferences, co2_enabled) :
           /\ o1.id = o2.id /\ o2.id = o3.id
           /\ Cardinality({ o1.category, o2.category, o3.category }) = 3
           /\ o1.pos[1] < o2.pos[1]
           /\ o1.pos[3] = 2
           /\ o3.pos[1] > Len(preferences.energy_sources)
           /\ Cardinality({ i \in 1..Len(metrics) : metrics[i].statistic_id = o1.id }) = 1

(***************************************************************************)
(* SpecPeriod: _resolve_period on the data of a service call.              *)
(***************************************************************************)
StartYears == { 2023, 2024 }

DateInputs ==
    UNION { { Date(y, m, d) : d \in 1..monthrange(y, m) } :
              y \in StartYears, m \in 1..12 }

\* "year" stands for every period kind other than day, week and month.
PeriodInputs == { None, Some("day"), Some("week"), Some("month"), Some("year") }

\* An explicit end date lies up to two days before the start and up to
\* MaxSpanDays after it.
EndDeltaInputs == (0 - 2)..MaxSpanDays

TimezoneInputs ==
    { UTC,
      [ kind |-> "zoneinfo", std |-> SecondsPerHour, dst |-> TRUE ],
      [ kind |-> "pytz", std |-> SecondsPerHour, dst |-> TRUE ] }

InitPeriod ==
    /\ pc = "period_call"
    /\ timezone \in TimezoneInputs
    /\ \E p \in PeriodInputs, d \in DateInputs, explicit_start \in BOOLEAN,
          e \in { None } \cup { Some(k) : k \in EndDeltaInputs } :
           /\ now_date = IF explicit_start THEN Date(2024, 1, 1) ELSE d
           /\ call_data =
                  [ period |-> p,
                    start_date |-> IF explicit_start THEN Some(d) ELSE None,
                    end_date |-> IF e = None THEN None ELSE Some(AddDays(d, e[1])) ]
    /\ resolved = PeriodError("")
    /\ IdleBalance /\ IdleWalker /\ IdleBucket /\ IdleService

ResolvePeriod ==
    /\ pc = "period_call"
    /\ resolved' = _resolve_period(call_data, now_date, timezone)
    /\ pc' = "period_resolved"
    /\ UNCHANGED << call_data, now_date, timezone, balanceVars, walkerVars, bucketVars,
                    serviceVars >>

NextPeriod == ResolvePeriod

SpecPeriod == InitPeriod /\ [][NextPeriod]_vars

(***************************************************************************)
(* SpecBucket: _select_bucket called with any period value and any window. *)
(***************************************************************************)
BucketPeriodInputs ==
    { None } \cup { Some(t) : t \in { "day", "week", "month", "DAY", "Week", "MONTH",
                                      "year", "Year", "" } }

\* Windows around the two thresholds of the span rule.
SpanInputs ==
    { k * SecondsPerDay + e : k \in { 1, 2, 3, 35, 36, 60 }, e \in { 0 - 1, 0, 1 } }

InitBucket ==
    /\ pc = "bucket_call"
    /\ timezone \in TimezoneInputs
    /\ \E p \in BucketPeriodInputs, span \in SpanInputs,
          d \in { Date(2024, 1, 1), Date(2024, 3, 30) } :
           bucket_args =
               [ period |-> p,
                 start_local |-> _localize_date(d, timezone),
                 end_local_exclusive |->
                     AddSeconds(_localize_date(d, timezone), span, timezone) ]
    /\ bucket = ""
    /\ call_data = [ period |-> None, start_date |-> None, end_date |-> None ]
    /\ now_date = Date(2024, 1, 1)
    /\ resolved = PeriodError("")
    /\ IdleBalance /\ IdleWalker /\ IdleService

SelectBucket ==
    /\ pc = "bucket_call"
    /\ bucket' = _select_bucket(bucket_args.period, bucket_args.start_local,
                                bucket_args.end_local_exclusive, timezone)
    /\ pc' = "bucket_selected"
    /\ UNCHANGED << bucket_args, periodVars, balanceVars, walkerVars,
                    serviceVars >>

NextBucket == SelectBucket

SpecBucket == InitBucket /\ [][NextBucket]_vars

(***************************************************************************)
(* Reference calendar, written from the rules of the Gregorian calendar.   *)
(***************************************************************************)
RefLeapYear(y) == (y % 4 = 0 /\ y % 100 # 0) \/ y % 400 = 0

RefMonthLength(y, m) ==
    IF m \in { 4, 6, 9, 11 } THEN 30
    ELSE IF m = 2 THEN (IF RefLeapYear(y) THEN 29 ELSE 28)
    ELSE 31

RefNextDay(d) ==
    IF d.day < RefMonthLength(d.year, d.month) THEN Date(d.year, d.month, d.day + 1)
    ELSE IF d.month < 12 THEN Date(d.year, d.month + 1, 1)
    ELSE Date(d.year + 1, 1, 1)

\* The number of days from date a to a later date b, by counting.
RECURSIVE RefDaysBetween(_, _)
RefDaysBetween(a, b) == IF a = b THEN 0 ELSE 1 + RefDaysBetween(RefNextDay(a), b)

\* The period of the call: the default when the call names none.
EffectivePeriod == IF call_data.period = None THEN "day" ELSE call_data.period[1]

\* The start and end dates the resolver works with, None when the start
\* cannot be defaulted.
ResolvedStart ==
    IF call_data.start_date # None THEN call_data.start_date
    ELSE DefaultStartDate(EffectivePeriod, now_date)

ResolvedEnd ==
    IF call_data.end_date # None THEN call_data.end_date
    ELSE IF ResolvedStart = None THEN None
    ELSE Some(DefaultEndDate(EffectivePeriod, ResolvedStart[1]))

Accepted == pc = "period_resolved" /\ resolved.value # None

(***************************************************************************)
(* Claims on the period resolver.                                          *)
(***************************************************************************)
\* C7: without an explicit end date, the display end date is the start date
\* for period day, the sixth day after the start for period week, and for
\* period month the last calendar day of the start's month (day 29 for a
\* start in 2024-02, day 28 for a start in 2023-02).
C7_DefaultEndDate ==
    (Accepted /\ call_data.end_date = None) =>
        LET s == DateOf(resolved.value[1].start_local)
            e == DateOf(resolved.value[1].display_end)
        IN /\ EffectivePeriod = "day" => e = s
           /\ EffectivePeriod = "week" =>
                  e = RefNextDay(RefNextDay(RefNextDay(RefNextDay(RefNextDay(RefNextDay(s))))))
           /\ EffectivePeriod = "month" =>
                  /\ e.year = s.year /\ e.month = s.month
                  /\ RefNextDay(e).day = 1
                  /\ (s.year = 2024 /\ s.month = 2) => e.day = 29
                  /\ (s.year = 2023 /\ s.month = 2) => e.day = 28

\* A month period starting inside February 2024 and one inside February
\* 2023 cannot be in one state: the leap case, from an explicit mid-month
\* start.
C7_Witness ==
    /\ Accepted
    /\ call_data.end_date = None
    /\ call_data.period = Some("month")
    /\ call_data.start_date = Some(Date(2024, 2, 10))
    /\ DateOf(resolved.value[1].display_end) = Date(2024, 2, 29)

\* C8: a request whose resolved end date is earlier than its resolved start
\* date (explicit or defaulted) fails with the end-before-start error and
\* returns no window.
C8_EndBeforeStartFails ==
    (pc = "period_resolved" /\ ResolvedStart # None
       /\ toordinal(ResolvedEnd[1]) < toordinal(ResolvedStart[1])) =>
        /\ resolved.error = "La date de fin doit être postérieure à la date de début."
        /\ resolved.value = None

\* An explicit end date one day before a start date defaulted to the Monday
\* of the current week, refused.
C8_Witness ==
    /\ pc = "period_resolved"
    /\ call_data.start_date = None
    /\ call_data.period = Some("week")
    /\ call_data.end_date # None
    /\ ResolvedStart # None
    /\ toordinal(call_data.end_date[1]) = toordinal(ResolvedStart[1]) - 1
    /\ resolved.error # ""
    /\ resolved.value = None

\* C9 as stated: query_end_exclusive == query_start + (display_end_inclusive
\* - display_start) + 1 day, the difference of the display bounds taken
\* either between the returned datetimes or between their calendar dates,
\* and display_end_inclusive >= display_start.
C9_RoundTripOneDay ==
    Accepted =>
        LET v == resolved.value[1]
            days == toordinal(DateOf(v.display_end)) - toordinal(DateOf(v.start_local))
        IN /\ \/ v.end_utc = v.start_utc
                               + SubDatetimes(v.display_end, v.start_local, timezone)
                               + SecondsPerDay
              \/ v.end_utc = v.start_utc + days * SecondsPerDay + SecondsPerDay
           /\ as_utc(v.display_end) >= as_utc(v.start_local)

\* C9 amended: display_end_inclusive >= display_start, and when the zone's
\* UTC offset is the same at display_start and at display_end_inclusive,
\* query_end_exclusive == query_start + (days from the date of display_start
\* to the date of display_end_inclusive) + 1 day, which is query_start +
\* (display_end_inclusive - display_start) + 1 second.
C9_RoundTripSameOffset ==
    Accepted =>
        LET v == resolved.value[1]
            days == RefDaysBetween(DateOf(v.start_local), DateOf(v.display_end))
        IN /\ as_utc(v.display_end) >= as_utc(v.start_local)
           /\ (v.start_local.utcoffset = v.display_end.utcoffset) =>
                  /\ v.end_utc = v.start_utc + days * SecondsPerDay + SecondsPerDay
                  /\ v.end_utc = v.start_utc
                                   + SubDatetimes(v.display_end, v.start_local, timezone)
                                   + 1

\* A window of several days in a zone with daylight saving, with the same
\* offset at both ends.
C9_Witness ==
    /\ Accepted
    /\ timezone.dst
    /\ resolved.value[1].start_local.utcoffset = resolved.value[1].display_end.utcoffset
    /\ resolved.value[1].start_local.ord + 3 <= resolved.value[1].display_end.ord
    /\ resolved.value[1].end_utc - resolved.value[1].start_utc > 3 * SecondsPerDay

\* The UTC instant of local midnight of a day in the zone of the call.
LocalMidnightUtc(day) ==
    (toordinal(day) - EpochOrdinal) * SecondsPerDay
        - utcoffset(timezone, toordinal(day), 0)

\* C26: for every accepted request and every time zone, the query start is
\* the UTC instant of local midnight of the start day and the exclusive query
\* end is the UTC instant of local midnight of the day after the end day,
\* also when a change of the UTC offset falls inside the period or on one of
\* its boundary days.
C26_LocalMidnightBounds ==
    Accepted =>
        /\ resolved.value[1].start_utc = LocalMidnightUtc(ResolvedStart[1])
        /\ resolved.value[1].end_utc = LocalMidnightUtc(AddDays(ResolvedEnd[1], 1))

\* C10: a period that reads day (in any letter case) yields hour, week
\* yields day and month yields day, whatever the span; any other period
\* value, or one that is not a string, yields hour for a span of at most 2
\* days, day for at most 35 days, month beyond.
C10_BucketByPeriodThenSpan ==
    (pc = "bucket_selected") =>
        LET p == bucket_args.period
            span == SubDatetimes(bucket_args.end_local_exclusive, bucket_args.start_local,
                                 timezone)
        IN /\ p \in { Some("day"), Some("DAY") } => bucket = "hour"
           /\ p \in { Some("week"), Some("Week") } => bucket = "day"
           /\ p \in { Some("month"), Some("MONTH") } => bucket = "day"
           /\ p \in { None, Some("year"), Some("Year"), Some("") } =>
                  /\ span <= 2 * SecondsPerDay => bucket = "hour"
                  /\ (span > 2 * SecondsPerDay /\ span <= 35 * SecondsPerDay) =>
                         bucket = "day"
                  /\ span > 35 * SecondsPerDay => bucket = "month"

\* Period day over a window of sixty days, still bucketed by the hour.
C10_Witness ==
    /\ pc = "bucket_selected"
    /\ bucket_args.period = Some("day")
    /\ bucket_args.end_local_exclusive.ord - bucket_args.start_local.ord >= 60
    /\ bucket = "hour"

(***************************************************************************)
(* SpecDashboard: _async_select_dashboard_preferences on any manager.      *)
(***************************************************************************)
\* A preferences blob with both keys; tag tells the blobs apart.
ValidBlob(tag) ==
    PyDict(<< Entry("energy_sources", PyList(<< PyStr(tag) >>)),
              Entry("device_consumption", PyList(<< >>)) >>)

OnlySources == PyDict(<< Entry("energy_sources", PyList(<< PyStr("c") >>)) >>)

OnlyDevices == PyDict(<< Entry("device_consumption", PyList(<< >>)) >>)

BlobInputs == { ValidBlob("a"), ValidBlob("b"), OnlySources, OnlyDevices, PyNone }

\* The wrappers found around a blob: mappings with identifier and name keys,
\* a mapping under an arbitrary key, a list, an object with attributes.
Wrappers(child) ==
    { PyDict(<< Entry("id", PyStr("Main")), Entry("name", PyStr("Home")),
                Entry("preferences", child) >>),
      PyDict(<< Entry("key", PyStr(" main ")), Entry("name", PyStr(" ")),
                Entry("energy_sources", PyList(<< >>)), Entry("dashboards", child) >>),
      PyDict(<< Entry("dashboard_id", PyNone), Entry("slug", PyInt(7)),
                Entry("title", PyInt(7)), Entry("label", PyStr("Other")),
                Entry("dashboard", child) >>),
      PyDict(<< Entry("MAIN", child) >>),
      PyDict(<< Entry("title", child) >>),
      PyList(<< child >>),
      PyObject(<< Entry("id", PyStr("Other")), Entry("data", child) >>),
      PyObject(<< Entry("name", PyStr("Main")), Entry("preferences", child) >>) }

RECURSIVE Nested(_)
Nested(depth) ==
    IF depth = 0 THEN BlobInputs
    ELSE BlobInputs \cup UNION { Wrappers(child) : child \in Nested(depth - 1) }

\* The entries of a list of dashboards.
DashboardEntryInputs ==
    { PyDict(<< Entry("id", PyStr("Main")), Entry("preferences", ValidBlob("a")) >>),
      PyDict(<< Entry("id", PyStr("main")), Entry("name", PyStr("Home")),
                Entry("preferences", ValidBlob("b")) >>),
      PyDict(<< Entry("id", PyStr("Main")), Entry("preferences", ValidBlob("b")) >>),
      PyDict(<< Entry("id", PyInt(7)), Entry("name", PyStr("Other")),
                Entry("preferences", ValidBlob("a")) >>),
      PyDict(<< Entry("name", PyStr("Other")), Entry("preferences", OnlySources) >>),
      ValidBlob("a") }

DataInputs ==
    Nested(MaxDepth)
    \cup { PyDict(<< Entry("dashboards", PyList(entries)) >>) :
             entries \in SeqsUpTo(DashboardEntryInputs, MaxDashboards) }

\* The markers of the host: entries of manager.data and attributes of the manager.
MarkerInputs ==
    { [ in_data |-> << >>, in_manager |-> << >> ],
      [ in_data |-> << Entry("selected_dashboard", PyStr("nope")),
                       Entry("default_dashboard", PyStr(" MAIN ")) >>,
        in_manager |-> << >> ],
      [ in_data |-> << Entry("active_dashboard", PyInt(7)) >>,
        in_manager |-> << Entry("selected_dashboard", PyStr("Home")) >> ],
      [ in_data |-> << >>,
        in_manager |-> << Entry("default_dashboard", PyNone),
                          Entry("active_dashboard", PyStr("Other")),
                          Entry("dashboards",
                                PyList(<< PyDict(<< Entry("slug", PyStr("Other")),
                                                    Entry("preferences", ValidBlob("b")) >>)
                                       >>)) >> ] }

ManagerInputs ==
    { PyObject(<< Entry("data", IF data.kind = "dict"
                                THEN PyDict(data.items \o markers.in_data)
                                ELSE data) >>
               \o markers.in_manager) :
        data \in DataInputs, markers \in MarkerInputs }

Only(name, outcomes) == [ NoMethods EXCEPT ![name] = Some(outcomes) ]

MethodInputs ==
    { NoMethods,
      Only("get_dashboard", << TypeErrorOutcome, Returns(ValidBlob("b")) >>),
      Only("async_get_dashboard",
           << Returns(PyDict(<< Entry("id", PyStr("Other")),
                                Entry("preferences", ValidBlob("a")) >>)),
              ExceptionOutcome >>),
      Only("async_get_dashboard", << ExceptionOutcome, Returns(OnlySources) >>),
      Only("async_get_dashboard_by_id", << Returns(PyNone), AwaitRaises >>),
      [ Only("async_get_dashboard_preferences", << TypeErrorOutcome, Returns(PyStr("Main")) >>)
          EXCEPT !["async_get_dashboard_by_slug"] =
              Some(<< Returns(PyList(<< PyDict(<< Entry("name", PyStr("Home")),
                                                  Entry("preferences", ValidBlob("a")) >>),
                                        PyDict(<< Entry("id", PyStr("nope")),
                                                  Entry("preferences", ValidBlob("b")) >>)
                                     >>)),
                      ExceptionOutcome >>) ] }

RequestedInputs ==
    { None, Some(""), Some(" "), Some("Main"), Some(" MAIN "), Some("Home"), Some("nope") }

InitDashboard ==
    /\ pc = "dashboard_call"
    /\ manager \in ManagerInputs
    /\ methods \in MethodInputs
    /\ requested_dashboard \in RequestedInputs
    /\ selection = Raised("")
    /\ Idle({ "dashboard" })

SelectDashboard ==
    /\ pc = "dashboard_call"
    /\ selection' = _async_select_dashboard_preferences(manager, methods,
                                                        requested_dashboard)
    /\ pc' = "dashboard_selected"
    /\ UNCHANGED << manager, methods, requested_dashboard >>
    /\ Frame({ "dashboard" })

NextDashboard == SelectDashboard

SpecDashboard == InitDashboard /\ [][NextDashboard]_vars

(***************************************************************************)
(* Claims about the dashboard selection, checked under SpecDashboard.      *)
(***************************************************************************)
\* Trim and casefold, as the claims state the normalization.
NormalizedKey(text) == casefold(strip(text))

\* The dashboards discovered in the manager.
Discovered == _collect_dashboard_preferences(manager)

DiscoveredSet == { Discovered[i] : i \in 1..Len(Discovered) }

\* A dashboard goes by a key: its identifier or its name, normalized, is the key.
GoesBy(dashboard, key) ==
    \E field \in { dashboard.identifier, dashboard.name } :
        field # None /\ strip(field[1]) # "" /\ NormalizedKey(field[1]) = key

ExplicitRequest == requested_dashboard # None /\ requested_dashboard[1] # ""

NoDiscoveredMatch ==
    \A dashboard \in DiscoveredSet :
        ~GoesBy(dashboard, NormalizedKey(requested_dashboard[1]))

\* A probe yields usable preferences when the value it returns holds a
\* preferences blob.
ProbeYields(outcome) ==
    /\ outcome.kind = "returns"
    /\ _extract_named_preferences(outcome.result, requested_dashboard, None) # << >>

NoProbeYields ==
    \A name \in DOMAIN methods :
        methods[name] # None =>
            \A convention \in 1..2 : ~ProbeYields(methods[name][1][convention])

\* The values of the host markers: entries of manager.data, attributes of the manager.
MarkerValues ==
    LET data == GetOrNone(manager, "data")
        Of(container) ==
            { GetItem(container, MarkerKeys[i]) :
                i \in { j \in 1..Len(MarkerKeys) : HasKey(container, MarkerKeys[j]) } }
    IN (IF data.kind = "dict" THEN Of(data) ELSE {}) \cup Of(manager)

Marked(dashboard) ==
    \E value \in MarkerValues :
        /\ value.kind # "none"
        /\ strip(str(value)) # ""
        /\ GoesBy(dashboard, NormalizedKey(str(value)))

HasBothKeys(value) ==
    /\ value.kind = "dict"
    /\ { "energy_sources", "device_consumption" }
           \subseteq { value.items[i].key : i \in 1..Len(value.items) }

\* C11: when a dashboard is explicitly requested, no discovered dashboard goes
\* by the normalized request and no probe of a manager method yields usable
\* preferences, the selection raises the dashboard-not-found error (and so
\* returns no dashboard).
C11_UnmatchedRequestFails ==
    (pc = "dashboard_selected" /\ ExplicitRequest /\ NoDiscoveredMatch /\ NoProbeYields)
        => selection = Raised(DashboardNotFound)

\* C12: with no dashboard requested and at least one dashboard discovered, the
\* selection returns a discovered dashboard: one that a host marker
\* (selected, default, active) names when a marker names a discovered
\* dashboard, the first discovered dashboard otherwise.
C12_DefaultDashboard ==
    (pc = "dashboard_selected" /\ ~ExplicitRequest /\ Discovered # << >>)
        => /\ selection.error = ""
           /\ selection.value # None
           /\ selection.value[1] \in DiscoveredSet
           /\ IF \E dashboard \in DiscoveredSet : Marked(dashboard)
              THEN Marked(selection.value[1])
              ELSE selection.value[1] = Discovered[1]

\* A marker names the second of two discovered dashboards, which is returned.
C12_Witness ==
    /\ pc = "dashboard_selected"
    /\ ~ExplicitRequest
    /\ Len(Discovered) >= 2
    /\ ~Marked(Discovered[1])
    /\ Marked(Discovered[2])
    /\ selection = Returned(Some(Discovered[2]))

\* C13: every discovered dashboard and every dashboard the selection returns
\* has a preferences mapping with both energy_sources and device_consumption.
C13_BothKeys ==
    pc = "dashboard_selected"
        => /\ \A dashboard \in DiscoveredSet : HasBothKeys(dashboard.preferences)
           /\ selection.value # None => HasBothKeys(selection.value[1].preferences)

\* The manager data nests a blob with one key only two wrappers deep, next to
\* nothing else: nothing is discovered; and a list of dashboards holds a blob
\* with one key only next to a valid one: only the valid one is returned.
C13_Witness ==
    /\ pc = "dashboard_selected"
    /\ \E entries \in SeqsUpTo(DashboardEntryInputs, MaxDashboards) :
          /\ GetItem(manager, "data") = PyDict(<< Entry("dashboards", PyList(entries)) >>)
          /\ \E i \in 1..Len(entries) : GetOrNone(entries[i], "preferences") = OnlySources
    /\ Discovered # << >>
    /\ selection.value # None

\* The identifier or the name of a dashboard, trimmed and casefolded, is the
\* request trimmed and casefolded.
GoesByRequest(dashboard) ==
    \E field \in { dashboard.identifier, dashboard.name } :
        field # None /\ NormalizedKey(field[1]) = NormalizedKey(requested_dashboard[1])

\* The selections a probe of a manager method yields for the request.
YieldedBy(outcome) ==
    LET extracted == _extract_named_preferences(outcome.result, requested_dashboard, None)
    IN { extracted[i] : i \in 1..Len(extracted) }

FirstYieldedBy(outcome) ==
    _extract_named_preferences(outcome.result, requested_dashboard, None)[1]

\* C28 as stated: whenever the selection returns for a non-empty requested
\* dashboard, the identifier or the name of the returned dashboard equals the
\* request after trim and casefold, also when a manager method supplied it.
C28_ReturnedMatchesRequest ==
    (pc = "dashboard_selected" /\ ExplicitRequest /\ selection.error = "")
        => /\ selection.value # None
           /\ GoesByRequest(selection.value[1])

\* C28 amended: whenever the selection returns for a non-empty requested
\* dashboard, either a discovered dashboard goes by the normalized request and
\* the first such dashboard is returned, or no discovered dashboard does and
\* the returned dashboard is one a manager method yielded: one that goes by
\* the request if the method yielded such a one, the first it yielded
\* otherwise, whatever its identifier and name.
C28_MatchOrProbeResult ==
    (pc = "dashboard_selected" /\ ExplicitRequest /\ selection.error = "")
        => /\ selection.value # None
           /\ LET returned == selection.value[1]
                  key == NormalizedKey(requested_dashboard[1])
                  matching == { i \in 1..Len(Discovered) : GoesBy(Discovered[i], key) }
              IN IF matching # {}
                 THEN /\ GoesByRequest(returned)
                      /\ \E i \in matching :
                            /\ returned = Discovered[i]
                            /\ \A other \in matching : i <= other
                 ELSE \E name \in DOMAIN methods :
                        /\ methods[name] # None
                        /\ \E convention \in 1..2 :
                              LET outcome == methods[name][1][convention]
                              IN /\ ProbeYields(outcome)
                                 /\ returned \in YieldedBy(outcome)
                                 /\ IF \E yielded \in YieldedBy(outcome) :
                                           GoesBy(yielded, key)
                                    THEN GoesBy(returned, key)
                                    ELSE returned = FirstYieldedBy(outcome)

\* "Main" is requested, nothing discovered goes by it, and the manager method
\* answers with a dashboard whose identifier is "Other": that one is returned.
C28_Witness ==
    /\ pc = "dashboard_selected"
    /\ requested_dashboard = Some("Main")
    /\ NoDiscoveredMatch
    /\ selection.error = ""
    /\ selection.value # None
    /\ selection.value[1].identifier = Some("Other")
    /\ ~GoesByRequest(selection.value[1])

(***************************************************************************)
(* SpecSensors: lines 492-516 of the report handler for the CO2 sensors or *)
(* for the price sensors: the definitions are built from the options and   *)
(* their totals are collected from the rows the recorder returns.          *)
(***************************************************************************)
SensorOptionInputs ==
    { None, Some(""), Some("sensor.a"), Some(" sensor.a "), Some("sensor.b") }

BuildDefinitionsOf(kind, enabled, sensor_options_) ==
    IF kind = "co2" THEN _build_co2_sensor_definitions(enabled, sensor_options_)
    ELSE _build_price_sensor_definitions(enabled, sensor_options_)

InitSensors ==
    /\ pc = "sensors_call"
    /\ sensor_kind \in { "co2", "price" }
    /\ sensor_enabled \in BOOLEAN
    /\ sensor_options \in [ OptionKeysOf(sensor_kind) -> SensorOptionInputs ]
    \* The recorder answers for the statistic ids it is asked for.
    /\ sensor_rows \in
           { st \in StatsInputs :
               DOMAIN st \subseteq
                   { strip(sensor_options[key][1]) :
                       key \in { k \in OptionKeysOf(sensor_kind) : sensor_options[k] # None } } }
    /\ sensor_definitions = << >>
    /\ sensor_totals = EmptyMap
    /\ Idle({ "sensors" })

CollectSensorStatistics ==
    /\ pc = "sensors_call"
    /\ LET definitions == BuildDefinitionsOf(sensor_kind, sensor_enabled, sensor_options)
       IN /\ sensor_definitions' = definitions
          /\ sensor_totals' =
                 IF definitions = << >> THEN EmptyMap
                 ELSE IF sensor_kind = "co2"
                 THEN _collect_co2_statistics(definitions, sensor_rows)
                 ELSE _collect_price_statistics(definitions, sensor_rows)
    /\ pc' = "sensors_collected"
    /\ UNCHANGED << sensor_kind, sensor_enabled, sensor_options, sensor_rows >>
    /\ Frame({ "sensors" })

NextSensors == CollectSensorStatistics

SpecSensors == InitSensors /\ [][NextSensors]_vars

\* C14: the totals of the auxiliary collector have exactly one key per
\* configured sensor, its translation key, and the value of each sensor is the
\* sum of the non-null changes of the rows returned for its entity id (0 when
\* there are none).
C14_TotalPerConfiguredSensor ==
    pc = "sensors_collected"
        => /\ DOMAIN sensor_totals =
                  { sensor_definitions[i].translation_key :
                      i \in 1..Len(sensor_definitions) }
           /\ \A i \in 1..Len(sensor_definitions) :
                  sensor_totals[sensor_definitions[i].translation_key]
                      = RefChangeSum(sensor_rows, sensor_definitions[i].entity_id)

\* C21: with the feature enabled, each sensor slot yields a sensor definition
\* under its translation key, whose entity id is the override of the options
\* (trimmed) when one is set and not blank, and the default entity id of the
\* slot otherwise.
C21_OverrideOrDefault ==
    (pc = "sensors_collected" /\ sensor_enabled)
        => \A slot \in 1..Len(SensorConfigOf(sensor_kind)) :
              LET config == SensorConfigOf(sensor_kind)[slot]
                  value == sensor_options[config.option_key]
                  expected == IF value # None /\ strip(value[1]) # ""
                              THEN strip(value[1]) ELSE config.default_entity
              IN \E i \in 1..Len(sensor_definitions) :
                    /\ sensor_definitions[i].translation_key = config.translation_key
                    /\ sensor_definitions[i].entity_id = expected

(***************************************************************************)
(* SpecAdvice: one call of generate_advice.  The call runs to the request  *)
(* it sends (or returns without one); the answer of the service, or the    *)
(* failure of the request, then lets it finish.                            *)
(***************************************************************************)
ApiKeyInputs == { None, Some(""), Some(" "), Some("sk-key"), Some(" sk-key ") }

ConclusionInputs ==
    { None, Some(""), Some(" "), Some("Production 12 kWh"), Some("Import 3 kWh") }

Choices(choice) == PyDict(<< Entry("id", PyStr("abc")), Entry("choices", PyList(<< choice >>)) >>)

Message(content) == PyDict(<< Entry("message", PyDict(<< Entry("content", content) >>)) >>)

\* The decoded bodies: well formed, with no advice in them, or of another shape.
DataInputs_Advice ==
    { Choices(Message(PyStr("Advice"))),
      Choices(Message(PyStr(" Advice "))),
      Choices(Message(PyList(<< PyDict(<< Entry("text", PyStr(" Ad")) >>),
                                PyStr("abc"),
                                PyDict(<< Entry("text", PyInt(7)) >>),
                                PyDict(<< Entry("text", PyStr("vice ")) >>) >>))),
      Choices(Message(PyStr(""))),
      Choices(Message(PyStr(" "))),
      Choices(Message(PyNone)),
      Choices(Message(PyInt(7))),
      Choices(Message(PyList(<< >>))),
      Choices(PyDict(<< >>)),
      Choices(PyDict(<< Entry("message", PyNone) >>)),
      Choices(PyDict(<< Entry("message", PyStr("abc")) >>)),
      Choices(PyStr("abc")),
      Choices(PyNone),
      PyDict(<< Entry("choices", PyList(<< >>)) >>),
      PyDict(<< Entry("choices", PyStr("abc")) >>),
      PyDict(<< Entry("choices", PyStr("")) >>),
      PyDict(<< Entry("choices", PyNone) >>),
      PyDict(<< Entry("choices", Message(PyStr("Advice"))) >>),
      PyDict(<< Entry("error", PyStr("abc")) >>),
      PyList(<< PyStr("abc") >>),
      PyStr("abc"),
      PyInt(7),
      PyNone }

ResponseInputs ==
    { Response("TimeoutError", FALSE, "", PyNone),
      Response("ClientError", FALSE, "", PyNone),
      Response("", FALSE, "", PyNone),
      Response("", TRUE, "ClientError", PyNone),
      Response("", TRUE, "TimeoutError", PyNone),
      Response("", TRUE, "ValueError", PyNone) }
    \cup { Response("", TRUE, "", data) : data \in DataInputs_Advice }

InitAdvice ==
    /\ pc = "advice_call"
    /\ api_key \in ApiKeyInputs
    /\ conclusion \in ConclusionInputs
    /\ response = NoResponse
    /\ network_requests = 0
    /\ advice = Raised("")
    /\ Idle({ "advice" })

\* Lines 50-91: from the call to the request, or to the return without one.
GenerateAdvice ==
    /\ pc = "advice_call"
    /\ IF SkipsRequest(api_key, conclusion)
       THEN /\ advice' = Returned(Some(FALLBACK_MESSAGE))
            /\ pc' = "advice_done"
            /\ UNCHANGED network_requests
       ELSE /\ network_requests' = network_requests + 1
            /\ pc' = "advice_requested"
            /\ UNCHANGED advice
    /\ UNCHANGED << api_key, conclusion, response >>
    /\ Frame({ "advice" })

\* Lines 91-131: the request is answered, or fails, and the call finishes.
FinishAdvice ==
    /\ pc = "advice_requested"
    /\ \E answer \in ResponseInputs :
          /\ response' = answer
          /\ advice' = AdviceOfResponse(answer)
    /\ pc' = "advice_done"
    /\ UNCHANGED << api_key, conclusion, network_requests >>
    /\ Frame({ "advice" })

NextAdvice == GenerateAdvice \/ FinishAdvice

SpecAdvice == InitAdvice /\ [][NextAdvice]_vars

BlankCredential == api_key = None \/ strip(api_key[1]) = ""

\* C15: a call of generate_advice with an absent, empty or blank credential
\* never starts a network request and returns the fallback string.
C15_NoRequestWithoutCredential ==
    BlankCredential
        => /\ network_requests = 0
           /\ pc # "advice_requested"
           /\ pc = "advice_done" => advice = Returned(Some(FALLBACK_MESSAGE))

C15_Witness ==
    /\ pc = "advice_done"
    /\ api_key = Some(" ")
    /\ conclusion = Some("Production 12 kWh")
    /\ advice = Returned(Some(FALLBACK_MESSAGE))
    /\ network_requests = 0

\* The failures of the advisory call: the request fails or lasts too long, the
\* status is not 200, the body does not decode, the decoded body has not the
\* expected structure, or the content generated is empty.
WellFormed(data) ==
    /\ data.kind = "dict" /\ HasKey(data, "choices")
    /\ LET choices == GetItem(data, "choices")
       IN /\ choices.kind = "list" /\ choices.items # << >>
          /\ LET choice == choices.items[1]
             IN /\ choice.kind = "dict"
                /\ GetOrNone(choice, "message").kind = "dict"

AdvisoryCallFailed ==
    \/ response.failure # ""
    \/ ~response.ok
    \/ response.decoding # ""
    \/ ~WellFormed(response.data)
    \/ AdviceOfContent(GetOrNone(GetItem(GetItem(response.data, "choices").items[1],
                                         "message"), "content")) = ""

\* C16: whatever way the advisory call fails, generate_advice returns the
\* fallback string and raises nothing.
C16_FallbackOnEveryFailure ==
    (pc = "advice_done" /\ network_requests > 0 /\ AdvisoryCallFailed)
        => advice = Returned(Some(FALLBACK_MESSAGE))

(***************************************************************************)
(* SpecCollect: _collect_statistics called with any metrics, the empty     *)
(* list included, on any recorder.  The coroutine advances from one await  *)
(* of an executor job to the next.                                         *)
(***************************************************************************)
CollectMetricInputs ==
    { << >>,
      << MetricDefinition("Production solaire", "sensor.a") >>,
      << MetricDefinition("Production solaire", "sensor.a"),
         MetricDefinition("Import réseau", "sensor.b") >>,
      << MetricDefinition("Production solaire", "sensor.a"),
         MetricDefinition("Import réseau", "sensor.a") >> }

\* The texts of the TypeErrors of get_metadata: "got multiple values for
\* argument", "missing 1 required positional argument", "unhashable type", and
\* a text with no hint.
MessageInputs ==
    { { "multiple values" },
      { "missing 1 required positional argument", "positional argument" },
      { "unhashable type" },
      {} }

OutcomeInputs ==
    { MetadataReturned, MetadataRaises("AttributeError", {}) }
        \cup { MetadataRaises("TypeError", message) : message \in MessageInputs }

\* The stored names of sensor.a: none, its identifier, blank, a name of its own.
StoredMetadataInputs ==
    { EmptyMap } \cup
    { [ id \in { "sensor.a" } |-> name ] :
        name \in { None, Some("sensor.a"), Some(" "), Some("Solar") } }

NamesInputs ==
    { [ states |-> EmptyMap, registry |-> EmptyMap ],
      [ states |-> [ id \in { "sensor.a" } |-> Some(" Roof ") ], registry |-> EmptyMap ],
      [ states |-> [ id \in { "sensor.a" } |-> Some(" ") ],
        registry |-> [ id \in { "sensor.a" } |-> Some("Meter") ] ] }

RecorderRowsInputs ==
    { EmptyMap,
      [ id \in { "sensor.a" } |-> << Some(2) >> ],
      [ id \in StatIds |-> << Some(0 - 1), None >> ] }

RecorderInputs ==
    [ active : BOOLEAN, signature : { "hass", "legacy", "unknown" },
      with_hass : OutcomeInputs, legacy : OutcomeInputs,
      metadata : StoredMetadataInputs, names : NamesInputs,
      rows : RecorderRowsInputs ]

InitCollect ==
    /\ pc = "collect_call"
    /\ metrics \in CollectMetricInputs
    /\ stats_map = EmptyMap
    /\ totals = EmptyMap
    /\ summary = None
    /\ recorder \in RecorderInputs
    /\ requires_hass_cache \in { None, Some(TRUE), Some(FALSE) }
    /\ metadata_requires_hass = FALSE
    /\ metadata = EmptyMap
    /\ recorder_calls = << >>
    /\ collected = Raised("")
    /\ Idle({ "balance", "collect" })

\* The call of get_metadata under a convention, and what the recorder answers.
MetadataCall(with_hass) == IF with_hass THEN "get_metadata(hass)" ELSE "get_metadata"

MetadataOutcome(with_hass) == IF with_hass THEN recorder.with_hass ELSE recorder.legacy

CollectFrame == UNCHANGED << metrics, totals, summary, recorder >>

\* Lines 1181-1205: up to the first await.
StartCollect ==
    /\ pc = "collect_call"
    /\ IF EmptyIdentifiers(metrics)
       THEN /\ collected' = Returned([ stats_map |-> EmptyMap, metadata |-> EmptyMap ])
            /\ pc' = "collect_done"
            /\ UNCHANGED << requires_hass_cache, metadata_requires_hass, recorder_calls >>
       ELSE IF ~recorder.active
       THEN /\ recorder_calls' = Append(recorder_calls, "get_instance")
            /\ collected' = Raised(RecorderUnavailable)
            /\ pc' = "collect_done"
            /\ UNCHANGED << requires_hass_cache, metadata_requires_hass >>
       ELSE LET requires == _recorder_metadata_requires_hass(requires_hass_cache,
                                                             recorder.signature)
            IN /\ requires_hass_cache' = Some(requires)
               /\ metadata_requires_hass' = requires
               /\ recorder_calls' =
                      recorder_calls \o << "get_instance", MetadataCall(requires) >>
               /\ pc' = "collect_await_metadata"
               /\ UNCHANGED collected
    /\ UNCHANGED << stats_map, metadata >>
    /\ CollectFrame
    /\ Frame({ "balance", "collect" })

\* Lines 1238-1277: the names are completed and the statistics are asked for.
QueryStatistics(found) ==
    /\ metadata' = EnrichMetadata(found, recorder.names)
    /\ recorder_calls' = Append(recorder_calls, "statistics_during_period")
    /\ pc' = "collect_await_statistics"
    /\ UNCHANGED << requires_hass_cache, collected >>

\* An exception leaves the coroutine.
CollectRaises(type) ==
    /\ collected' = Raised(type)
    /\ pc' = "collect_done"
    /\ UNCHANGED << requires_hass_cache, metadata, recorder_calls >>

\* Lines 1207-1277: the first lookup has answered.
ResumeMetadata ==
    /\ pc = "collect_await_metadata"
    /\ LET outcome == MetadataOutcome(metadata_requires_hass)
           after == AfterTypeError(metadata_requires_hass, outcome.message)
       IN IF outcome.raises = "" THEN QueryStatistics(recorder.metadata)
          ELSE IF outcome.raises # "TypeError" \/ after = "raise"
          THEN CollectRaises(outcome.raises)
          ELSE /\ requires_hass_cache' =
                      _set_recorder_metadata_requires_hass(requires_hass_cache,
                                                           after = "retry_hass")
               /\ recorder_calls' =
                      Append(recorder_calls, MetadataCall(after = "retry_hass"))
               /\ pc' = IF after = "retry_hass" THEN "collect_await_retry_hass"
                        ELSE "collect_await_retry_legacy"
               /\ UNCHANGED << metadata, collected >>
    /\ UNCHANGED << stats_map, metadata_requires_hass >>
    /\ CollectFrame
    /\ Frame({ "balance", "collect" })

\* Lines 1217-1220, 1230-1277: the second lookup has answered.
ResumeRetry ==
    /\ pc \in { "collect_await_retry_hass", "collect_await_retry_legacy" }
    /\ LET outcome == MetadataOutcome(pc = "collect_await_retry_hass")
       IN IF outcome.raises = "" THEN QueryStatistics(recorder.metadata)
          ELSE CollectRaises(outcome.raises)
    /\ UNCHANGED << stats_map, metadata_requires_hass >>
    /\ CollectFrame
    /\ Frame({ "balance", "collect" })

\* Lines 1268-1279: the statistics have come.
ResumeStatistics ==
    /\ pc = "collect_await_statistics"
    /\ stats_map' = RowsOf(recorder.rows, StatisticIdsOf(metrics))
    /\ collected' = Returned([ stats_map |-> stats_map', metadata |-> metadata ])
    /\ pc' = "collect_done"
    /\ UNCHANGED << requires_hass_cache, metadata_requires_hass, metadata,
                    recorder_calls >>
    /\ CollectFrame
    /\ Frame({ "balance", "collect" })

NextCollect == StartCollect \/ ResumeMetadata \/ ResumeRetry \/ ResumeStatistics

SpecCollect == InitCollect /\ [][NextCollect]_vars

(***************************************************************************)
(* Claims about the statistics collection, checked under SpecCollect.      *)
(***************************************************************************)
\* No call has reached the recorder.
NoRecorderCall == recorder_calls = << >>

\* C17: _collect_statistics called with metrics that hold no identifier
\* returns empty rows and empty metadata, and no recorder lookup, no metadata
\* call and no statistics query is made, at any point of the call.
C17_EmptyIdentifiersNoRecorder ==
    (StatisticIdsOf(metrics) = {}) =>
        /\ NoRecorderCall
        /\ pc \in { "collect_call", "collect_done" }
        /\ pc = "collect_done" =>
               collected = Returned([ stats_map |-> EmptyMap, metadata |-> EmptyMap ])

\* A call with no metrics has returned, on a recorder that is not running.
C17_Witness ==
    /\ pc = "collect_done"
    /\ metrics = << >>
    /\ ~recorder.active
    /\ collected.error = ""
    /\ NoRecorderCall

\* The invocations of the metadata lookup, in order.
MetadataLookups ==
    LET IsLookup(call) == call \in { MetadataCall(TRUE), MetadataCall(FALSE) }
    IN SelectSeq(recorder_calls, IsLookup)

QueriedStatistics ==
    \E i \in 1..Len(recorder_calls) : recorder_calls[i] = "statistics_during_period"

\* The first lookup has raised a TypeError whose text holds a marker of a
\* signature mismatch for the convention it was made with.
SignatureMismatch ==
    LET first == MetadataOutcome(metadata_requires_hass)
    IN /\ first.raises = "TypeError"
       /\ IF metadata_requires_hass
          THEN _metadata_error_indicates_legacy_signature(first.message)
          ELSE _metadata_error_indicates_requires_hass(first.message)

\* The first lookup of the call has answered.
FirstLookupAnswered ==
    /\ MetadataLookups # << >>
    /\ pc \notin { "collect_call", "collect_await_metadata" }

\* C22: within one call of _collect_statistics the metadata lookup is invoked
\* at most twice.  When the first lookup raises a TypeError whose text matches
\* the markers of a signature mismatch for the convention in use, the cached
\* convention is flipped and the lookup is made once more, with the other
\* convention; when that retry fails, or when the first failure matches no
\* marker, the exception leaves the call and nothing more is asked of the
\* recorder.
C22_RetryOnce ==
    LET first == MetadataOutcome(metadata_requires_hass)
        second == MetadataOutcome(~metadata_requires_hass)
        fatal(type) ==
            /\ pc = "collect_done"
            /\ collected = Raised(type)
            /\ ~QueriedStatistics
    IN /\ Len(MetadataLookups) <= 2
       /\ FirstLookupAnswered =>
              IF first.raises = ""
              THEN /\ MetadataLookups = << MetadataCall(metadata_requires_hass) >>
                   /\ requires_hass_cache = Some(metadata_requires_hass)
              ELSE IF SignatureMismatch
              THEN /\ MetadataLookups = << MetadataCall(metadata_requires_hass),
                                           MetadataCall(~metadata_requires_hass) >>
                   /\ requires_hass_cache = Some(~metadata_requires_hass)
                   /\ pc \in { "collect_await_retry_hass", "collect_await_retry_legacy" }
                        \/ IF second.raises # "" THEN fatal(second.raises)
                           ELSE QueriedStatistics
              ELSE /\ MetadataLookups = << MetadataCall(metadata_requires_hass) >>
                   /\ requires_hass_cache = Some(metadata_requires_hass)
                   /\ fatal(first.raises)

\* The cached convention was wrong: the first lookup raised a mismatch, the
\* retry with the other convention answered and the call returned.
C22_Witness ==
    /\ pc = "collect_done"
    /\ SignatureMismatch
    /\ Len(MetadataLookups) = 2
    /\ requires_hass_cache = Some(~metadata_requires_hass)
    /\ collected.error = ""

(***************************************************************************)
(* SpecRequests: report requests that collect their statistics at the same *)
(* time.  Each request is a coroutine of _collect_statistics with its own  *)
(* local metadata_requires_hass; the coroutines share the module flag      *)
(* _RECORDER_METADATA_REQUIRES_HASS and the recorder, and the event loop   *)
(* runs one of them from an await to the next in any order.                *)
(***************************************************************************)
RequestIds == 1..MaxRequests

RequestMetricInputs ==
    { << >>, << MetricDefinition("Production solaire", "sensor.a") >> }

\* A coroutine that has not started.
NewRequest(metrics_) ==
    [ pc |-> "collect_call", metrics |-> metrics_, metadata_requires_hass |-> FALSE,
      lookups |-> << >>, collected |-> Raised("") ]

RequestRecorderInputs ==
    { r \in RecorderInputs :
        /\ r.metadata = EmptyMap
        /\ r.names = [ states |-> EmptyMap, registry |-> EmptyMap ]
        /\ r.rows = EmptyMap }

InitRequests ==
    /\ pc = "requests"
    /\ recorder \in RequestRecorderInputs
    /\ requires_hass_cache \in { None, Some(TRUE), Some(FALSE) }
    /\ requests \in [ RequestIds -> { NewRequest(m) : m \in RequestMetricInputs } ]
    /\ metadata_requires_hass = FALSE
    /\ metadata = EmptyMap
    /\ recorder_calls = << >>
    /\ collected = Raised("")
    /\ Idle({ "collect", "requests" })

RequestFrame ==
    /\ UNCHANGED << pc, recorder, metadata_requires_hass, metadata, collected >>
    /\ Frame({ "collect", "requests" })

\* The coroutine r moves to a position with some of its fields updated.
RequestMoves(r, fields) ==
    requests' = [ requests EXCEPT ![r] = [ field \in DOMAIN requests[r] |->
                    IF field \in DOMAIN fields THEN fields[field]
                    ELSE requests[r][field] ] ]

\* Lines 1181-1205 for the request r: up to the first await.
RequestStart(r) ==
    /\ pc = "requests"
    /\ requests[r].pc = "collect_call"
    /\ IF EmptyIdentifiers(requests[r].metrics)
       THEN /\ RequestMoves(r, [ pc |-> "collect_done",
                                 collected |-> Returned([ stats_map |-> EmptyMap,
                                                          metadata |-> EmptyMap ]) ])
            /\ UNCHANGED << requires_hass_cache, recorder_calls >>
       ELSE IF ~recorder.active
       THEN /\ RequestMoves(r, [ pc |-> "collect_done",
                                 collected |-> Raised(RecorderUnavailable) ])
            /\ recorder_calls' = Append(recorder_calls, "get_instance")
            /\ UNCHANGED requires_hass_cache
       ELSE LET requires == _recorder_metadata_requires_hass(requires_hass_cache,
                                                             recorder.signature)
            IN /\ requires_hass_cache' = Some(requires)
               /\ RequestMoves(r, [ pc |-> "collect_await_metadata",
                                    metadata_requires_hass |-> requires,
                                    lookups |-> << MetadataCall(requires) >> ])
               /\ recorder_calls' =
                      recorder_calls \o << "get_instance", MetadataCall(requires) >>
    /\ RequestFrame

\* Lines 1238-1277 for the request r.
RequestQueriesStatistics(r) ==
    /\ RequestMoves(r, [ pc |-> "collect_await_statistics" ])
    /\ recorder_calls' = Append(recorder_calls, "statistics_during_period")
    /\ UNCHANGED requires_hass_cache

RequestRaises(r, type) ==
    /\ RequestMoves(r, [ pc |-> "collect_done", collected |-> Raised(type) ])
    /\ UNCHANGED << requires_hass_cache, recorder_calls >>

\* Lines 1207-1277 for the request r: its first lookup has answered.
RequestResumeMetadata(r) ==
    /\ pc = "requests"
    /\ requests[r].pc = "collect_await_metadata"
    /\ LET local == requests[r].metadata_requires_hass
           outcome == MetadataOutcome(local)
           after == AfterTypeError(local, outcome.message)
       IN IF outcome.raises = "" THEN RequestQueriesStatistics(r)
          ELSE IF outcome.raises # "TypeError" \/ after = "raise"
          THEN RequestRaises(r, outcome.raises)
          ELSE /\ requires_hass_cache' =
                      _set_recorder_metadata_requires_hass(requires_hass_cache,
                                                           after = "retry_hass")
               /\ RequestMoves(r, [ pc |-> IF after = "retry_hass"
                                           THEN "collect_await_retry_hass"
                                           ELSE "collect_await_retry_legacy",
                                    lookups |-> Append(requests[r].lookups,
                                                       MetadataCall(after = "retry_hass")) ])
               /\ recorder_calls' =
                      Append(recorder_calls, MetadataCall(after = "retry_hass"))
    /\ RequestFrame

\* Lines 1217-1220, 1230-1277 for the request r: its second lookup has answered.
RequestResumeRetry(r) ==
    /\ pc = "requests"
    /\ requests[r].pc \in { "collect_await_retry_hass", "collect_await_retry_legacy" }
    /\ LET outcome == MetadataOutcome(requests[r].pc = "collect_await_retry_hass")
       IN IF outcome.raises = "" THEN RequestQueriesStatistics(r)
          ELSE RequestRaises(r, outcome.raises)
    /\ RequestFrame

\* Lines 1268-1279 for the request r: its statistics have come.
RequestResumeStatistics(r) ==
    /\ pc = "requests"
    /\ requests[r].pc = "collect_await_statistics"
    /\ RequestMoves(r, [ pc |-> "collect_done",
                         collected |->
                             Returned([ stats_map |->
                                            RowsOf(recorder.rows,
                                                   StatisticIdsOf(requests[r].metrics)),
                                        metadata |->
                                            EnrichMetadata(recorder.metadata,
                                                           recorder.names) ]) ])
    /\ UNCHANGED << requires_hass_cache, recorder_calls >>
    /\ RequestFrame

NextRequests ==
    \E r \in RequestIds :
        \/ RequestStart(r)
        \/ RequestResumeMetadata(r)
        \/ RequestResumeRetry(r)
        \/ RequestResumeStatistics(r)

SpecRequests == InitRequests /\ [][NextRequests]_vars

\* The store accepts one calling convention only: the lookup made with it
\* returns, and the lookup made with the other one raises a TypeError whose
\* text holds a marker of the signature mismatch.
StoreAcceptsOnly(with_hass) ==
    LET rejected == MetadataOutcome(~with_hass)
    IN /\ recorder.active
       /\ MetadataOutcome(with_hass) = MetadataReturned
       /\ rejected.raises = "TypeError"
       /\ IF with_hass THEN _metadata_error_indicates_requires_hass(rejected.message)
          ELSE _metadata_error_indicates_legacy_signature(rejected.message)

AllRequestsDone == \A r \in RequestIds : requests[r].pc = "collect_done"

\* C23: under any interleaving of the requests that share the convention
\* flag, when the store accepts exactly one calling convention, every request
\* makes at most two metadata lookups (one retry) and ends with its metadata,
\* and once every request has finished, one at least having looked metadata
\* up, the flag holds the accepted convention.
C23_RaceIsSafe ==
    pc = "requests" =>
        \A accepted \in BOOLEAN :
            StoreAcceptsOnly(accepted) =>
                /\ \A r \in RequestIds :
                       /\ Len(requests[r].lookups) <= 2
                       /\ requests[r].pc = "collect_done"
                              => requests[r].collected.error = ""
                /\ (AllRequestsDone /\ \E r \in RequestIds : requests[r].lookups # << >>)
                       => requires_hass_cache = Some(accepted)

\* Two requests raced on a wrong flag: both read it before either retried,
\* both retried, both have their metadata and the flag holds the convention
\* of the store.
C23_Witness ==
    /\ pc = "requests"
    /\ AllRequestsDone
    /\ \E accepted \in BOOLEAN :
          /\ StoreAcceptsOnly(accepted)
          /\ requires_hass_cache = Some(accepted)
    /\ \A r \in RequestIds :
          /\ Len(requests[r].lookups) = 2
          /\ requests[r].collected.error = ""

(***************************************************************************)
(* SpecPdf: _build_pdf called with any filename and any filename pattern.  *)
(***************************************************************************)
\* The pieces patterns are made of: the three placeholders, a placeholder of
\* another name, placeholders with no name, braces alone and doubled, a blank,
\* a letter and the suffix in both cases.
PatternPieces ==
    { << "{", "s", "t", "a", "r", "t", "}" >>,
      << "{", "e", "n", "d", "}" >>,
      << "{", "p", "e", "r", "i", "o", "d", "}" >>,
      << "{", "f", "o", "o", "}" >>,
      << "{", "}" >>,
      << "{", "0", "}" >>,
      << "{" >>,
      << "}" >>,
      << "{", "{" >>,
      << " " >>,
      << "r" >>,
      << ".", "p", "d", "f" >>,
      << ".", "P", "D", "F" >> }

RECURSIVE Concatenations(_)
Concatenations(n) ==
    IF n = 0 THEN { << >> }
    ELSE Concatenations(n - 1)
             \cup { head \o piece : head \in Concatenations(n - 1), piece \in PatternPieces }

PatternInputs == Concatenations(MaxPieces)

FilenameInputs ==
    { None, Some(<< >>), Some(<< " " >>), Some(<< "r" >>),
      Some(<< " ", "r", ".", "p", "d", "f", " " >>), Some(<< "R", ".", "P", "D", "F" >>),
      Some(<< ".", "p", "d", "f" >>) }

DisplayDatesInputs ==
    { [ start |-> Date(2024, 1, 1), end |-> Date(2024, 1, 7) ],
      [ start |-> Date(2024, 12, 1), end |-> Date(2024, 12, 31) ] }

InitPdf ==
    /\ pc = "pdf_call"
    /\ filename \in FilenameInputs
    /\ filename_pattern \in PatternInputs
    /\ display_dates \in DisplayDatesInputs
    /\ report_period = << "w", "e", "e", "k" >>
    /\ output_dir_made = FALSE
    /\ written = None
    /\ built = Raised("")
    /\ pdf_fault = ""
    /\ builder = NoBuilder
    /\ Idle({ "pdf" })

\* EnergyPDFBuilder.__init__ of pdf.py: the font cache and the assets
\* directory are created.
EnergyPDFBuilder == [ created |-> TRUE, font_cache |-> "held", assets_cache |-> "held" ]

\* EnergyPDFBuilder._cleanup_resources: each directory still held is released.
_cleanup_resources(builder_) ==
    [ builder_ EXCEPT !.font_cache = IF @ = "held" THEN "released" ELSE @,
                      !.assets_cache = IF @ = "held" THEN "released" ELSE @ ]

\* EnergyPDFBuilder.output: the document is written, or the writing raises;
\* the finally clause cleans up either way.
output(builder_, fault) ==
    [ builder |-> _cleanup_resources(builder_),
      error |-> IF fault = "output" THEN "OSError" ELSE "" ]

\* Lines 1549-1828 of _build_pdf: the builder is created, the content is
\* added and the document is written.  fault is the step that raises:
\* "content" for a step between the construction and the output, "output"
\* for the writing, "" for none.
BuildDocument(fault) ==
    IF fault = "content" THEN [ builder |-> EnergyPDFBuilder, error |-> "FPDFException" ]
    ELSE output(EnergyPDFBuilder, fault)

\* _build_pdf: the directory is made, the name of the file is settled, and the
\* document is built and written under that name.
BuildPdf ==
    /\ pc = "pdf_call"
    /\ output_dir_made' = TRUE
    /\ LET name == ResolveFilename(filename, filename_pattern,
                                   FormatContext(display_dates.start, display_dates.end,
                                                 report_period))
           document == BuildDocument(pdf_fault)
       IN IF name.error # ""
          THEN /\ built' = name
               /\ builder' = builder
          ELSE /\ built' = IF document.error # "" THEN Raised(document.error) ELSE name
               /\ builder' = document.builder
    /\ written' = IF built'.error = "" THEN Some(built'.value) ELSE None
    /\ pc' = "pdf_done"
    /\ UNCHANGED << filename, filename_pattern, display_dates, report_period, pdf_fault >>
    /\ Frame({ "pdf" })

NextPdf == BuildPdf

SpecPdf == InitPdf /\ [][NextPdf]_vars

(***************************************************************************)
(* SpecBuilder: _build_pdf called with a step of the document that may     *)
(* raise, and the finalizer of the builder, which runs once nothing        *)
(* refers to the builder any more: after the call has been left.           *)
(***************************************************************************)
InitBuilder ==
    /\ pc = "pdf_call"
    /\ filename \in FilenameInputs
    /\ filename_pattern \in Concatenations(1)
    /\ display_dates \in DisplayDatesInputs
    /\ report_period = << "w", "e", "e", "k" >>
    /\ output_dir_made = FALSE
    /\ written = None
    /\ built = Raised("")
    /\ pdf_fault \in { "", "content", "output" }
    /\ builder = NoBuilder
    /\ Idle({ "pdf" })

\* EnergyPDFBuilder.__del__: the builder of a call that was left is
\* finalized; it releases what the call has left held.
FinalizeBuilder ==
    /\ pc = "pdf_done"
    /\ builder.created
    /\ builder # _cleanup_resources(builder)
    /\ builder' = _cleanup_resources(builder)
    /\ UNCHANGED << pc, filename, filename_pattern, display_dates, report_period,
                    output_dir_made, written, built, pdf_fault >>
    /\ Frame({ "pdf" })

NextBuilder == BuildPdf \/ FinalizeBuilder

SpecBuilder == InitBuilder /\ [][NextBuilder]_vars

\* C25: when a call of _build_pdf that has created a builder is left, by a
\* return or by an exception of the output or of a step before it, the font
\* directory and the assets directory of the builder are released.
C25_ReleasedOnEveryExit ==
    (pc = "pdf_done" /\ builder.created)
        => /\ builder.font_cache = "released"
           /\ builder.assets_cache = "released"

(***************************************************************************)
(* Claims about the name of the output file, checked under SpecPdf.        *)
(***************************************************************************)
\* No filename is supplied: none, or a blank one.
NoFilenameSupplied == filename = None \/ StripText(filename[1]) = << >>

\* The placeholders of a pattern from position i on: what stands between a
\* brace that is not doubled and the next closing brace.
RECURSIVE PlaceholdersFrom(_, _)
PlaceholdersFrom(pattern, i) ==
    IF i > Len(pattern) THEN {}
    ELSE IF pattern[i] = "{" /\ i < Len(pattern) /\ pattern[i + 1] = "{"
    THEN PlaceholdersFrom(pattern, i + 2)
    ELSE IF pattern[i] = "{" /\ Find(pattern, "}", i + 1) # 0
    THEN { SubSeq(pattern, i + 1, Find(pattern, "}", i + 1) - 1) }
             \cup PlaceholdersFrom(pattern, Find(pattern, "}", i + 1) + 1)
    ELSE PlaceholdersFrom(pattern, i + 1)

KnownPlaceholders ==
    { << "s", "t", "a", "r", "t" >>, << "e", "n", "d" >>,
      << "p", "e", "r", "i", "o", "d" >> }

HasOtherPlaceholder == PlaceholdersFrom(filename_pattern, 1) \ KnownPlaceholders # {}

Expansion ==
    format(filename_pattern,
           FormatContext(display_dates.start, display_dates.end, report_period))

ExpansionIsEmpty == Expansion.error = "" /\ StripText(Expansion.text) = << >>

InvalidFilenamePattern == { UnknownPlaceholder, EmptyFilename }

\* C18: when no filename is supplied and the pattern holds a placeholder other
\* than {start}, {end} and {period}, or expands to nothing once trimmed,
\* _build_pdf fails with an InvalidFilenamePattern error and writes no PDF;
\* otherwise the name of the file written is not empty and ends with .pdf
\* (in either case of the letters).
C18_FilenamePattern ==
    pc = "pdf_done" =>
        IF NoFilenameSupplied /\ (HasOtherPlaceholder \/ ExpansionIsEmpty)
        THEN built.error \in InvalidFilenamePattern /\ written = None
        ELSE /\ built.error = ""
             /\ written # None
             /\ written[1] # << >>
             /\ endswith(lower(written[1]), PdfSuffix)

(***************************************************************************)
(* Claims about the period kinds the resolver does not know, checked under *)
(* SpecPeriod.                                                             *)
(***************************************************************************)
UnsupportedPeriod == EffectivePeriod \notin VALID_PERIODS

\* C20 as stated: _resolve_period fails for every period kind other than
\* day, week and month, whether or not a start or an end date is supplied.
C20_UnsupportedAlwaysFails ==
    (pc = "period_resolved" /\ UnsupportedPeriod) =>
        resolved.error # "" /\ resolved.value = None

\* C20, amended: for a period kind other than day, week and month,
\* _resolve_period fails with "Période non supportée" when no start date is
\* supplied, whatever the end date; with a start date it fails only when the
\* end date supplied is earlier than the start, and otherwise returns the
\* window from the start date to the end date supplied, or to the start date
\* itself when none is.
C20_UnsupportedWithoutStartFails ==
    (pc = "period_resolved" /\ UnsupportedPeriod) =>
        IF call_data.start_date = None
        THEN resolved = PeriodError("Période non supportée")
        ELSE LET start_date == call_data.start_date[1]
                 end_date == IF call_data.end_date # None THEN call_data.end_date[1]
                             ELSE start_date
             IN IF toordinal(end_date) < toordinal(start_date)
                THEN resolved =
                         PeriodError("La date de fin doit être postérieure à la date de début.")
                ELSE /\ resolved.error = ""
                     /\ resolved.value # None
                     /\ DateOf(resolved.value[1].start_local) = start_date
                     /\ DateOf(resolved.value[1].display_end) = end_date

\* A period kind that is not known, with no start date but an end date,
\* refused as not supported.
C20_Witness ==
    /\ pc = "period_resolved"
    /\ call_data.period = Some("year")
    /\ call_data.start_date = None
    /\ call_data.end_date # None
    /\ resolved = PeriodError("Période non supportée")

(***************************************************************************)
(* SpecHandler: _async_handle_generate, the handler of the report service, *)
(* from the call to the notification.  The handler runs the calls modelled *)
(* above one after the other; its local variables are the variables of     *)
(* those calls.  preferences holds the blob of the selected dashboard in    *)
(* the form the walker reads.                                              *)
(***************************************************************************)
DEFAULT_REPORT_TYPE == "week"

DEFAULT_CO2 == FALSE

DEFAULT_PRICE == FALSE

DEFAULT_FILENAME_PATTERN ==
    << "e", "n", "e", "r", "g", "y", "_", "r", "e", "p", "o", "r", "t", "_",
       "{", "s", "t", "a", "r", "t", "}", "_", "{", "e", "n", "d", "}",
       ".", "p", "d", "f" >>

NoMetricsFound == "Aucune statistique n'a été trouvée dans les préférences énergie."

\* options.get(key, default) of a flag, then bool().
OptionFlag(value, default) == IF value = None THEN default ELSE value[1]

\* Lines 456-466: the period the resolver is given.
CoercedPeriod(period_value, option_report_type) ==
    IF period_value # None /\ period_value[1] \in VALID_PERIODS THEN period_value[1]
    ELSE IF option_report_type # None /\ option_report_type[1] \in VALID_PERIODS
    THEN option_report_type[1]
    ELSE DEFAULT_REPORT_TYPE

\* Lines 469-478: the flag of the call if the call has one, else the option.
EffectiveFlag(override, option, default) ==
    IF override = None THEN OptionFlag(option, default) ELSE override[1]

\* The handler going on whatever the metrics.
NoMetrics_Never(ms) == FALSE

\* Line 484.
NoMetrics(ms) == ms = << >>

\* Lines 2026-2032 and following: the hint alone without a summary, else the
\* overview and the table of the summary; a text that is never blank.
_compose_conclusion_prompt(summary_) ==
    IF summary_ = None THEN Some("conclusion_hint") ELSE Some("overview and table")

\* Lines 552-557.
ApiKeyOfOptions(raw_api_key) ==
    IF raw_api_key # None /\ strip(raw_api_key[1]) # "" THEN Some(strip(raw_api_key[1]))
    ELSE None

\* Lines 526-530.
FilenamePatternOfOptions(pattern) ==
    IF pattern = None \/ StripText(pattern[1]) = << >> THEN DEFAULT_FILENAME_PATTERN
    ELSE pattern[1]

\* The characters of a period.
PeriodText(period) ==
    CASE period = "day" -> << "d", "a", "y" >>
      [] period = "week" -> << "w", "e", "e", "k" >>
      [] period = "month" -> << "m", "o", "n", "t", "h" >>

\* No exception of an awaited step stops the handler.
FirstFailure_None(errors) == ""

\* The handler has no exception handler of its own: the first awaited step
\* that raises ends it.  errors lists what each step raised ("" when it
\* returned or was not made), in the order of the steps.
FirstFailure(errors) ==
    LET failed == { i \in 1..Len(errors) : errors[i] # "" }
    IN IF failed = {} THEN ""
       ELSE errors[CHOOSE i \in failed : \A j \in failed : i <= j]

\* The calls of one auxiliary collector on the recorder.
SensorCalls(definitions) ==
    IF definitions = << >> THEN << >>
    ELSE << "get_instance", "statistics_during_period" >>

HandlerManagerInputs ==
    { PyObject(<< Entry("data", PyNone) >>),
      PyObject(<< Entry("data",
                        PyDict(<< Entry("id", PyStr("Main")), Entry("name", PyStr("Home")),
                                  Entry("preferences", ValidBlob("a")) >>)) >>) }

\* Preferences with nothing, with a source and a device that name no
\* statistic, and with statistics.
HandlerPreferencesInputs ==
    { [ energy_sources |-> << >>, device_consumption |-> << >> ],
      [ energy_sources |-> << Source("solar", "", "", "", "sensor.a", << >>, << >>) >>,
        device_consumption |-> << Device("", "") >> ],
      [ energy_sources |-> << Source("solar", "sensor.a", "", "", "", << >>, << >>) >>,
        device_consumption |-> << Device("sensor.b", "sensor.a") >> ] }

HandlerCallInputs ==
    { [ period |-> None, start_date |-> None, end_date |-> None ],
      [ period |-> Some("year"), start_date |-> Some(Date(2024, 1, 1)), end_date |-> None ],
      [ period |-> Some("day"), start_date |-> Some(Date(2024, 1, 2)),
        end_date |-> Some(Date(2024, 1, 1)) ] }

HandlerOptionsInputs ==
    { NoOptions,
      [ default_report_type |-> Some("month"), co2 |-> Some(TRUE), price |-> Some(TRUE),
        filename_pattern |-> Some(<< " " >>), openai_api_key |-> Some(" sk-key ") ],
      [ default_report_type |-> Some("year"), co2 |-> Some(FALSE), price |-> Some(TRUE),
        filename_pattern |-> Some(<< "{", "f", "o", "o", "}" >>),
        openai_api_key |-> Some("sk-key") ],
      [ default_report_type |-> None, co2 |-> Some(TRUE), price |-> None,
        filename_pattern |-> Some(<< "r", "_", "{", "p", "e", "r", "i", "o", "d", "}" >>),
        openai_api_key |-> Some(" ") ] }

HandlerRecorderInputs ==
    { NoRecorder,
      [ NoRecorder EXCEPT !.active = TRUE,
                          !.metadata = [ id \in { "sensor.a" } |-> Some("sensor.a") ],
                          !.names = [ states |-> [ id \in { "sensor.a" } |-> Some(" Roof ") ],
                                      registry |-> EmptyMap ],
                          !.rows = [ id \in { "sensor.a" } |-> << Some(2) >> ] ],
      [ NoRecorder EXCEPT !.active = TRUE,
                          !.with_hass = MetadataRaises("TypeError", { "multiple values" }),
                          !.rows = [ id \in StatIds |-> << Some(0 - 1), None >> ] ],
      [ NoRecorder EXCEPT !.active = TRUE, !.signature = "legacy",
                          !.legacy = MetadataRaises("TypeError", { "unhashable type" }),
                          !.with_hass = MetadataRaises("AttributeError", {}) ] }

HandlerSensorOptions ==
    [ key \in OptionKeysOf("co2") \cup OptionKeysOf("price") |->
        IF key \in { "CONF_CO2_ELECTRICITY", "CONF_PRICE_GAS" } THEN Some(" sensor.a ")
        ELSE None ]

\* What the statistics query of each auxiliary collector does: it returns
\* ("") or it raises an exception.
AuxiliaryOutcomeInputs ==
    { [ co2 |-> "", price |-> "" ],
      [ co2 |-> "Exception", price |-> "" ],
      [ co2 |-> "", price |-> "Exception" ] }

InitHandler ==
    /\ pc = "handler_call"
    /\ handling = TRUE
    /\ manager \in HandlerManagerInputs
    /\ methods = NoMethods
    /\ requested_dashboard \in { None, Some("Other") }
    /\ selection = Raised("")
    /\ preferences \in HandlerPreferencesInputs
    /\ call_data \in HandlerCallInputs
    /\ now_date = Date(2024, 1, 10)
    /\ timezone = UTC
    /\ resolved = PeriodError("")
    /\ options \in HandlerOptionsInputs
    /\ overrides \in { [ co2 |-> None, price |-> None ],
                       [ co2 |-> Some(TRUE), price |-> Some(FALSE) ] }
    /\ co2_enabled = FALSE
    /\ price_enabled = FALSE
    /\ recorder \in HandlerRecorderInputs
    /\ requires_hass_cache = None
    /\ metadata_requires_hass = FALSE
    /\ metadata = EmptyMap
    /\ recorder_calls = << >>
    /\ collected = Raised("")
    /\ sensor_options = HandlerSensorOptions
    /\ sensor_rows = [ id \in { "sensor.a" } |-> << Some(2) >> ]
    /\ sensor_kind = "co2"
    /\ sensor_enabled = FALSE
    /\ sensor_definitions = << >>
    /\ sensor_totals = EmptyMap
    /\ co2_definitions = << >>
    /\ price_definitions = << >>
    /\ co2_totals = EmptyMap
    /\ price_totals = EmptyMap
    /\ filename \in { None, Some(<< "r" >>) }
    /\ filename_pattern = << >>
    /\ display_dates = [ start |-> Date(2024, 1, 1), end |-> Date(2024, 1, 1) ]
    /\ report_period = << >>
    /\ output_dir_made = FALSE
    /\ written = None
    /\ built = Raised("")
    /\ pdf_fault = ""
    /\ builder = NoBuilder
    /\ notifications = 0
    /\ handler_error = ""
    /\ aux_raises \in AuxiliaryOutcomeInputs
    /\ IdleBalance /\ IdleBucket /\ IdleAdvice /\ IdleRequests /\ IdleSetup
    /\ IdleFlow

\* The handler ends on an error.
HandlerRaises(message) ==
    /\ handler_error' = message
    /\ pc' = "handler_done"

HandlerFrame == UNCHANGED << handling, options, overrides, notifications, aux_raises >>

\* Lines 442-449.
HandleSelect ==
    /\ pc = "handler_call"
    /\ handling
    /\ selection' = _async_select_dashboard_preferences(manager, methods,
                                                        requested_dashboard)
    /\ IF selection'.error # "" THEN HandlerRaises(selection'.error)
       ELSE pc' = "handler_selected" /\ UNCHANGED handler_error
    /\ UNCHANGED << manager, methods, requested_dashboard, price_enabled,
                    co2_definitions, price_definitions, co2_totals, price_totals >>
    /\ HandlerFrame
    /\ Frame({ "dashboard", "handler" })

\* Lines 452-489: the period, the flags and the metrics, up to the call of
\* _collect_statistics.
HandlePrepare ==
    /\ pc = "handler_selected"
    /\ handling
    /\ LET period == CoercedPeriod(call_data.period, options.default_report_type)
           coerced == [ call_data EXCEPT !.period = Some(period) ]
           window == _resolve_period(coerced, now_date, timezone)
           co2 == EffectiveFlag(overrides.co2, options.co2, DEFAULT_CO2)
           price == EffectiveFlag(overrides.price, options.price, DEFAULT_PRICE)
           found == _build_metrics(preferences, co2)
       IN /\ call_data' = coerced
          /\ resolved' = window
          /\ IF window.error # ""
             THEN /\ HandlerRaises(window.error)
                  /\ UNCHANGED << co2_enabled, price_enabled, metrics >>
             ELSE /\ co2_enabled' = co2
                  /\ price_enabled' = price
                  /\ metrics' = found
                  /\ IF NoMetrics(found) THEN HandlerRaises(NoMetricsFound)
                     ELSE pc' = "collect_call" /\ UNCHANGED handler_error
    /\ UNCHANGED << preferences, stats_map, totals, summary, now_date, timezone,
                    co2_definitions, price_definitions, co2_totals, price_totals >>
    /\ HandlerFrame
    /\ Frame({ "walker", "balance", "period", "handler" })

\* Lines 489-557: the statistics have come: the totals, the auxiliary sensors,
\* the name pattern, the summary and the credential, up to the call of
\* generate_advice.
HandleCollected ==
    /\ pc = "collect_done"
    /\ handling
    /\ IF collected.error # ""
       THEN /\ HandlerRaises(collected.error)
            /\ UNCHANGED << totals, summary, co2_definitions, price_definitions,
                            co2_totals, price_totals, recorder_calls, api_key,
                            conclusion, filename_pattern, display_dates, report_period >>
       ELSE LET co2_sensors ==
                    IF co2_enabled
                    THEN _build_co2_sensor_definitions(OptionFlag(options.co2, DEFAULT_CO2),
                                                       sensor_options)
                    ELSE << >>
                price_sensors ==
                    IF price_enabled
                    THEN _build_price_sensor_definitions(
                             OptionFlag(options.price, DEFAULT_PRICE), sensor_options)
                    ELSE << >>
                co2_error == IF co2_sensors = << >> THEN "" ELSE aux_raises.co2
                price_error == IF price_sensors = << >> THEN "" ELSE aux_raises.price
                failure == FirstFailure(<< co2_error, price_error >>)
            IN /\ totals' = _calculate_totals(metrics, stats_map)
               /\ co2_definitions' = co2_sensors
               /\ price_definitions' = price_sensors
               /\ co2_totals' = IF co2_sensors = << >> \/ co2_error # "" THEN EmptyMap
                                ELSE _collect_co2_statistics(co2_sensors, sensor_rows)
               /\ price_totals' =
                      IF price_sensors = << >> \/ FirstFailure(<< co2_error >>) # ""
                                               \/ price_error # ""
                      THEN EmptyMap
                      ELSE _collect_price_statistics(price_sensors, sensor_rows)
               /\ recorder_calls' =
                      recorder_calls \o SensorCalls(co2_sensors)
                          \o (IF FirstFailure(<< co2_error >>) # "" THEN << >>
                              ELSE SensorCalls(price_sensors))
               /\ IF failure # ""
                  THEN /\ HandlerRaises(failure)
                       /\ UNCHANGED << summary, api_key, conclusion, filename_pattern,
                                       display_dates, report_period >>
                  ELSE /\ filename_pattern' =
                              FilenamePatternOfOptions(options.filename_pattern)
                       /\ display_dates' =
                              [ start |-> DateOf(resolved.value[1].start_local),
                                end |-> DateOf(resolved.value[1].display_end) ]
                       /\ report_period' = PeriodText(call_data.period[1])
                       /\ summary' = _prepare_conclusion_summary(metrics, totals')
                       /\ conclusion' = _compose_conclusion_prompt(summary')
                       /\ api_key' = ApiKeyOfOptions(options.openai_api_key)
                       /\ pc' = "advice_call"
                       /\ UNCHANGED handler_error
    /\ UNCHANGED << metrics, stats_map, price_enabled, response, network_requests, advice,
                    recorder, requires_hass_cache, metadata_requires_hass, metadata,
                    collected, filename, output_dir_made, written, built, pdf_fault,
                    builder >>
    /\ HandlerFrame
    /\ Frame({ "balance", "collect", "advice", "pdf", "handler" })

\* Lines 559-565: the advice has come, up to the call of _build_pdf.
HandleAdvised ==
    /\ pc = "advice_done"
    /\ handling
    /\ IF advice.error # "" THEN HandlerRaises(advice.error)
       ELSE pc' = "pdf_call" /\ UNCHANGED handler_error
    /\ UNCHANGED << price_enabled, co2_definitions, price_definitions, co2_totals,
                    price_totals >>
    /\ HandlerFrame
    /\ Frame({ "handler" })

\* Lines 565-624: the document is written and the notification is created.
HandleBuilt ==
    /\ pc = "pdf_done"
    /\ handling
    /\ IF built.error # ""
       THEN HandlerRaises(built.error) /\ UNCHANGED notifications
       ELSE /\ notifications' = notifications + 1
            /\ pc' = "handler_done"
            /\ UNCHANGED handler_error
    /\ UNCHANGED << handling, options, overrides, price_enabled, co2_definitions,
                    price_definitions, co2_totals, price_totals, aux_raises >>
    /\ Frame({ "handler" })

NextHandler ==
    \/ HandleSelect
    \/ HandlePrepare
    \/ StartCollect
    \/ ResumeMetadata
    \/ ResumeRetry
    \/ ResumeStatistics
    \/ HandleCollected
    \/ GenerateAdvice
    \/ FinishAdvice
    \/ HandleAdvised
    \/ BuildPdf
    \/ HandleBuilt

SpecHandler == InitHandler /\ [][NextHandler]_vars

(***************************************************************************)
(* Claims about the handler, checked under SpecHandler.                    *)
(***************************************************************************)
\* The walker has run: the dashboard is selected and the period is resolved.
WalkerRan ==
    /\ handling
    /\ pc \notin { "handler_call", "handler_selected" }
    /\ selection.error = ""
    /\ resolved.value # None

\* What the walker yields for the preferences of the dashboard.
WalkerYield == _build_metrics(preferences, co2_enabled)

\* C19: when the walker yields no metric, the handler fails with
\* NoMetricsFound before any statistics query: no call reaches the recorder,
\* no advice is asked for, no PDF is written and no notification is created.
C19_NoMetricsAborts ==
    (WalkerRan /\ WalkerYield = << >>) =>
        /\ pc = "handler_done"
        /\ handler_error = NoMetricsFound
        /\ recorder_calls = << >>
        /\ network_requests = 0
        /\ ~output_dir_made
        /\ written = None
        /\ notifications = 0

\* The handler has failed for a dashboard whose source and device name no
\* statistic, with a recorder that runs and a credential.
C19_Witness ==
    /\ WalkerRan
    /\ preferences.energy_sources # << >>
    /\ metrics = << >>
    /\ recorder.active
    /\ options.openai_api_key = Some("sk-key")
    /\ handler_error = NoMetricsFound

\* The build of the PDF has started: _build_pdf is called or has run.
PdfBuildStarted ==
    \/ pc \in { "pdf_call", "pdf_done" }
    \/ output_dir_made
    \/ built # Raised("")
    \/ written # None

\* The statistics query, the aggregation of the totals, the collection of the
\* CO2 and price sensors and the advice have completed.
AggregationCompleted ==
    /\ collected.error = ""
    /\ stats_map = collected.value.stats_map
    /\ totals = _calculate_totals(metrics, stats_map)
    /\ co2_definitions # << >> =>
           /\ aux_raises.co2 = ""
           /\ co2_totals = _collect_co2_statistics(co2_definitions, sensor_rows)
    /\ price_definitions # << >> =>
           /\ aux_raises.price = ""
           /\ price_totals = _collect_price_statistics(price_definitions, sensor_rows)
    /\ advice.error = ""
    /\ advice.value # None

\* One of the steps before the build has failed.
AggregationFailed ==
    \/ collected.error # ""
    \/ co2_definitions # << >> /\ aux_raises.co2 # ""
    \/ price_definitions # << >> /\ aux_raises.price # ""
    \/ advice.error # ""

\* C24: in a report request the build of the PDF starts only after the
\* statistics query, the aggregation of the totals, the CO2 and price
\* collections and the advice have all completed, and the notification comes
\* only after the PDF is written; when one of those steps fails, the request
\* ends with its error and nothing of the build happens: no output
\* directory, no file, no notification.
C24_PdfAfterAggregation ==
    handling =>
        /\ PdfBuildStarted => AggregationCompleted
        /\ notifications > 0 => written # None
        /\ AggregationFailed =>
               /\ ~PdfBuildStarted
               /\ notifications = 0
               \* The exception is on its way to the handler, or has ended it.
               /\ pc \in { "collect_done", "advice_done", "handler_done" }
               /\ pc = "handler_done" => handler_error # ""

\* The statistics have come and the CO2 sensors are collected, then the
\* query of the price sensors fails: the request ends there.
C24_Witness ==
    /\ handling
    /\ pc = "handler_done"
    /\ collected.error = ""
    /\ co2_definitions # << >>
    /\ co2_totals # EmptyMap
    /\ price_definitions # << >>
    /\ aux_raises.price # ""
    /\ handler_error = aux_raises.price
    /\ ~PdfBuildStarted

\* The handler has gone past the collection of the auxiliary sensors: the
\* dashboard, the period, the metrics and the statistics were all obtained.
SensorsDecided ==
    /\ handling
    /\ \/ pc \in { "advice_call", "advice_requested", "advice_done", "pdf_call", "pdf_done" }
       \/ /\ pc = "handler_done"
          /\ selection.error = ""
          /\ resolved.error = ""
          /\ metrics # << >>
          /\ collected.error = ""

\* The flag of the service call if the call gives one, else the stored option.
StatedFlag(override, option, default) ==
    IF override # None THEN override[1]
    ELSE IF option # None THEN option[1]
    ELSE default

\* An option names a sensor of the kind.
SensorConfigured(kind) ==
    \E key \in OptionKeysOf(kind) :
        sensor_options[key] # None /\ strip(sensor_options[key][1]) # ""

\* C29: in a report request the effective co2_enabled (price_enabled) flag is
\* the value of the service call when the call gives one and the stored
\* option otherwise, and that flag alone decides the collection of the
\* configured CO2 (price) sensors: they are collected when it is true and a
\* sensor is configured, and not collected when it is false.
C29_EffectiveFlagDecides ==
    SensorsDecided =>
        LET co2 == StatedFlag(overrides.co2, options.co2, DEFAULT_CO2)
            price == StatedFlag(overrides.price, options.price, DEFAULT_PRICE)
        IN /\ co2_enabled = co2
           /\ price_enabled = price
           /\ (co2 /\ SensorConfigured("co2")) => co2_definitions # << >>
           /\ (price /\ SensorConfigured("price")) => price_definitions # << >>
           /\ ~co2 => (co2_definitions = << >> /\ co2_totals = EmptyMap)
           /\ ~price => (price_definitions = << >> /\ price_totals = EmptyMap)

(***************************************************************************)
(* SpecSetup: async_setup, async_setup_entry and async_unload_entry called *)
(* in any order, for any config entry.  domain_data is hass.data[DOMAIN]:  *)
(* None when the key is absent, else <<[entries, registered]>>: the ids of *)
(* the config entries stored in it and its _services_registered flag.      *)
(* loaded holds the entries set up and not unloaded since;                 *)
(* double_registrations counts the calls of hass.services.async_register   *)
(* made while the service was registered.                                  *)
(***************************************************************************)
EntryIds == 1..MaxEntries

\* hass.data.setdefault(DOMAIN, {}).
setdefault(data) ==
    IF data = None THEN Some([ entries |-> {}, registered |-> FALSE ]) ELSE data

\* Lines 421-431.
_active_entry_ids(data) == data[1].entries

\* No entry is ever found in hass.data.
_domain_has_config_entries_Never(data) == FALSE

\* Lines 434-437.
_domain_has_config_entries(data) == _active_entry_ids(data) # {}

\* Lines 230-249: the domain data and the service registry after the call.
_async_register_services(data, registered, doubles) ==
    LET current == setdefault(data)
    IN IF current[1].registered
       THEN [ data |-> current, registered |-> registered, doubles |-> doubles ]
       ELSE [ data |-> Some([ current[1] EXCEPT !.registered = TRUE ]),
              registered |-> TRUE,
              doubles |-> IF registered THEN doubles + 1 ELSE doubles ]

InitSetup ==
    /\ pc = "setup"
    /\ IdleSetup
    /\ Idle({ "setup" })

SetupFrame == UNCHANGED pc /\ Frame({ "setup" })

\* Lines 189-196.
AsyncSetup ==
    /\ pc = "setup"
    /\ setup_calls < MaxSetupCalls
    /\ LET after == _async_register_services(domain_data, service_registered,
                                             double_registrations)
       IN /\ domain_data' = after.data
          /\ service_registered' = after.registered
          /\ double_registrations' = after.doubles
    /\ last_call' = "setup"
    /\ setup_calls' = setup_calls + 1
    /\ UNCHANGED loaded
    /\ SetupFrame

\* Lines 199-211.
AsyncSetupEntry(entry) ==
    /\ pc = "setup"
    /\ setup_calls < MaxSetupCalls
    /\ LET stored == setdefault(domain_data)
           with_entry == Some([ stored[1] EXCEPT !.entries = @ \cup { entry } ])
           after == _async_register_services(with_entry, service_registered,
                                             double_registrations)
       IN /\ domain_data' = after.data
          /\ service_registered' = after.registered
          /\ double_registrations' = after.doubles
    /\ loaded' = loaded \cup { entry }
    /\ last_call' = "setup_entry"
    /\ setup_calls' = setup_calls + 1
    /\ SetupFrame

\* Lines 214-227.  An empty mapping and an absent one are both falsy.
AsyncUnloadEntry(entry) ==
    /\ pc = "setup"
    /\ setup_calls < MaxSetupCalls
    /\ IF domain_data = None
          \/ (domain_data[1].entries = {} /\ ~domain_data[1].registered)
       THEN UNCHANGED << domain_data, service_registered >>
       ELSE LET popped == Some([ domain_data[1] EXCEPT !.entries = @ \ { entry } ])
            IN IF ~_domain_has_config_entries(popped)
               THEN /\ service_registered' = FALSE
                    /\ domain_data' = None
               ELSE /\ domain_data' = popped
                    /\ UNCHANGED service_registered
    /\ loaded' = loaded \ { entry }
    /\ last_call' = "unload_entry"
    /\ setup_calls' = setup_calls + 1
    /\ UNCHANGED double_registrations
    /\ SetupFrame

NextSetup ==
    \/ AsyncSetup
    \/ \E entry \in EntryIds : AsyncSetupEntry(entry)
    \/ \E entry \in EntryIds : AsyncUnloadEntry(entry)

SpecSetup == InitSetup /\ [][NextSetup]_vars

\* C27: after any sequence of the three calls, the generate service is
\* registered whenever a config entry is loaded; it is never registered while
\* already registered, the flag of the domain data being set exactly when the
\* service is registered; and the unloading of an entry leaves the service and
\* the domain data in place while another entry is loaded, and removes both
\* when none is.
C27_ServiceLifecycle ==
    pc = "setup" =>
        /\ loaded # {} => service_registered
        /\ double_registrations = 0
        /\ service_registered <=> (domain_data # None /\ domain_data[1].registered)
        /\ loaded # {} => (domain_data # None /\ _active_entry_ids(domain_data) = loaded)
        /\ (last_call = "unload_entry" /\ loaded = {})
               => (~service_registered /\ domain_data = None)

\* Two entries were set up and one of them has just been unloaded: the
\* service is still registered for the other.
C27_Witness ==
    /\ pc = "setup"
    /\ last_call = "unload_entry"
    /\ Cardinality(loaded) = 1
    /\ setup_calls >= 3
    /\ service_registered
    /\ domain_data # None
    /\ domain_data[1].entries = loaded

(***************************************************************************)
(* SpecFlow: one config flow of the domain, from its start to its end.     *)
(* config_entries is the list hass.config_entries holds for the domain,    *)
(* each entry with its entry_id, its unique_id (None or <<the domain>>), its   *)
(* data and its options; a mapping of values gives each key of FlowKeys    *)
(* None when it has no value for the key, else <<the value>>.              *)
(* flow_result is what the last step returned; flow_submitted lists the    *)
(* steps the user submitted, flow_removed the entries async_remove         *)
(* removed, and removal_result what the last call of async_remove did.     *)
(***************************************************************************)
\* DOMAIN of const.py.
INTEGRATION_DOMAIN == "energy_pdf_report"

FlowKeys == { "language", "default_report_type" }

NoValues == [ key \in FlowKeys |-> None ]

Values(language, default_report_type) ==
    [ language |-> language, default_report_type |-> default_report_type ]

VALID_REPORT_TYPES == VALID_PERIODS

\* Lines 72-84, for the keys of FlowKeys.
BASE_DEFAULTS == Values(Some("fr"), Some(DEFAULT_REPORT_TYPE))

\* The form opening on the defaults of the integration, whatever the entry.
_merge_defaults_BaseOnly(existing) == BASE_DEFAULTS

\* Lines 86-96; existing is None or <<a mapping of values>>.
_merge_defaults(existing) ==
    LET merged == [ key \in FlowKeys |->
                      IF existing # None /\ existing[1][key] # None
                      THEN existing[1][key]
                      ELSE BASE_DEFAULTS[key] ]
    IN IF merged.default_report_type[1] \notin VALID_REPORT_TYPES
       THEN [ merged EXCEPT !.default_report_type = Some(DEFAULT_REPORT_TYPE) ]
       ELSE merged

\* {**dict(entry.data), **dict(entry.options)}, lines 163-166.
ExistingValues(entry) ==
    [ key \in FlowKeys |->
        IF entry.options[key] # None THEN entry.options[key] ELSE entry.data[key] ]

ConfigEntry(entry_id, unique_id, data, entry_options) ==
    [ entry_id |-> entry_id, unique_id |-> unique_id, data |-> data,
      options |-> entry_options ]

FlowResult(type, step_id, defaults, reason, data) ==
    [ type |-> type, step_id |-> step_id, defaults |-> defaults, reason |-> reason,
      data |-> data ]

\* async_show_form, async_abort and async_create_entry.
async_show_form(step_id, defaults) == FlowResult("form", step_id, defaults, "", None)

async_abort(reason) == FlowResult("abort", "", None, reason, None)

async_create_entry(data) == FlowResult("create_entry", "", None, "", Some(data))

\* The entries but the one of an id.
RECURSIVE WithoutEntry(_, _)
WithoutEntry(entries, entry_id) ==
    IF entries = << >> THEN << >>
    ELSE IF Head(entries).entry_id = entry_id THEN WithoutEntry(Tail(entries), entry_id)
    ELSE << Head(entries) >> \o WithoutEntry(Tail(entries), entry_id)

\* Lines 199-200: async_update_entry(entry, unique_id=DOMAIN).
WithUniqueId(entries, entry_id) ==
    [ i \in 1..Len(entries) |->
        IF entries[i].entry_id = entry_id /\ entries[i].unique_id = None
        THEN [ entries[i] EXCEPT !.unique_id = Some(INTEGRATION_DOMAIN) ]
        ELSE entries[i] ]

\* Lines 150-158: async_step_user with an input.  The flow state and the
\* entries after the call.
CreateFromInput(entries, cached, reconfigure, user_input) ==
    IF \E i \in 1..Len(entries) : entries[i].unique_id = Some(INTEGRATION_DOMAIN)
    THEN [ entries |-> entries, cached |-> cached, reconfigure |-> reconfigure,
           result |-> async_abort("already_configured") ]
    ELSE [ entries |-> Append(entries,
                              ConfigEntry(MaxFlowEntries + 1, Some(INTEGRATION_DOMAIN),
                                          user_input, NoValues)),
           cached |-> None, reconfigure |-> reconfigure,
           result |-> async_create_entry(user_input) ]

\* Lines 160-181 (and 187-195 for the form of reinstall_confirm):
\* async_step_user without input.
ShowUserStep(entries, cached, reconfigure) ==
    IF reconfigure = None /\ entries # << >>
    THEN [ entries |-> entries, cached |-> Some(ExistingValues(entries[1])),
           reconfigure |-> Some(entries[1].entry_id),
           result |-> async_show_form("reinstall_confirm", None) ]
    ELSE [ entries |-> entries, cached |-> None, reconfigure |-> reconfigure,
           result |-> async_show_form("user", Some(_merge_defaults(cached))) ]

\* What async_remove does: it removes the entry, it raises a
\* HomeAssistantError, or it returns False.
RemovalOutcomes == { "removed", "HomeAssistantError", "False" }

FlowDataInputs ==
    { NoValues, Values(Some("nl"), Some("month")), Values(Some("en"), Some("year")) }

FlowOptionsInputs ==
    { NoValues, Values(Some("en"), None), Values(None, Some("day")) }

FlowUserInputs == { Values(Some("fr"), Some("week")), Values(Some("nl"), Some("day")) }

\* Entries 1..n; an entry an older version made has no unique_id, and at
\* most one entry has the unique_id of the domain.
FlowEntriesInputs ==
    UNION { { entries \in [ 1..n -> [ entry_id : 1..n,
                                       unique_id : { None, Some(INTEGRATION_DOMAIN) },
                                       data : FlowDataInputs,
                                       options : FlowOptionsInputs ] ] :
                /\ \A i \in 1..n : entries[i].entry_id = i
                /\ Cardinality({ i \in 1..n : entries[i].unique_id # None }) <= 1 } :
            n \in 0..MaxFlowEntries }

InitFlow ==
    /\ pc = "flow"
    /\ config_entries \in FlowEntriesInputs
    /\ _reconfigure_entry = None
    /\ _cached_existing_values = None
    /\ flow_result = FlowResult("none", "", None, "", None)
    /\ flow_submitted = << >>
    /\ flow_removed = << >>
    /\ removal_result = ""
    /\ Idle({ "flow" })

FlowFrame == UNCHANGED pc /\ Frame({ "flow" })

FlowMoves(after) ==
    /\ config_entries' = after.entries
    /\ _cached_existing_values' = after.cached
    /\ _reconfigure_entry' = after.reconfigure
    /\ flow_result' = after.result

\* The flow starts: async_step_user(None).
FlowStart ==
    /\ pc = "flow"
    /\ flow_result.type = "none"
    /\ FlowMoves(ShowUserStep(config_entries, _cached_existing_values,
                              _reconfigure_entry))
    /\ UNCHANGED << flow_submitted, flow_removed, removal_result >>
    /\ FlowFrame

\* Lines 183-211: the user submits the form of reinstall_confirm.
SubmitReinstallConfirm(outcome) ==
    /\ pc = "flow"
    /\ flow_result = async_show_form("reinstall_confirm", None)
    /\ flow_submitted' = Append(flow_submitted, "reinstall_confirm")
    /\ IF _reconfigure_entry = None
       THEN /\ FlowMoves(CreateFromInput(config_entries, _cached_existing_values,
                                         _reconfigure_entry, NoValues))
            /\ UNCHANGED << flow_removed, removal_result >>
       ELSE LET entry_id == _reconfigure_entry[1]
                updated == WithUniqueId(config_entries, entry_id)
                removed == { i \in 1..Len(updated) : updated[i].entry_id = entry_id }
            IN /\ removal_result' = outcome
               /\ IF outcome # "removed"
                  THEN /\ FlowMoves([ entries |-> updated, cached |-> None,
                                      reconfigure |-> None,
                                      result |-> async_abort("remove_failed") ])
                       /\ UNCHANGED flow_removed
                  ELSE /\ FlowMoves(ShowUserStep(WithoutEntry(updated, entry_id),
                                                 _cached_existing_values, None))
                       /\ flow_removed' =
                              flow_removed \o [ i \in 1..Cardinality(removed) |->
                                                  updated[CHOOSE j \in removed : TRUE] ]
    /\ FlowFrame

\* Lines 150-158: the user submits the form of the user step.
SubmitUser(user_input) ==
    /\ pc = "flow"
    /\ flow_result.type = "form"
    /\ flow_result.step_id = "user"
    /\ flow_submitted' = Append(flow_submitted, "user")
    /\ FlowMoves(CreateFromInput(config_entries, _cached_existing_values,
                                 _reconfigure_entry, user_input))
    /\ UNCHANGED << flow_removed, removal_result >>
    /\ FlowFrame

NextFlow ==
    \/ FlowStart
    \/ \E outcome \in RemovalOutcomes : SubmitReinstallConfirm(outcome)
    \/ \E user_input \in FlowUserInputs : SubmitUser(user_input)

SpecFlow == InitFlow /\ [][NextFlow]_vars

(***************************************************************************)
(* Claims about the config flow, checked under SpecFlow.                   *)
(***************************************************************************)
\* The number of times the user submitted the form of reinstall_confirm.
Confirmations ==
    Cardinality({ i \in 1..Len(flow_submitted) : flow_submitted[i] = "reinstall_confirm" })

LastSubmitted ==
    IF flow_submitted = << >> THEN "" ELSE flow_submitted[Len(flow_submitted)]

\* The entries the flow created.
CreatedEntries ==
    { i \in 1..Len(config_entries) : config_entries[i].entry_id > MaxFlowEntries }

\* The defaults of the form, as taken from an entry: for each key the value
\* of the options of the entry, else the one of its data, else the default
\* of the integration; a report type that is not valid gives way to the
\* default one.
DefaultsTakenFrom(entry) ==
    [ key \in FlowKeys |->
        LET stored == IF entry.options[key] # None THEN entry.options[key]
                      ELSE entry.data[key]
        IN IF stored = None THEN BASE_DEFAULTS[key]
           ELSE IF key = "default_report_type" /\ stored[1] \notin VALID_REPORT_TYPES
           THEN Some(DEFAULT_REPORT_TYPE)
           ELSE stored ]

LastRemoved == flow_removed[Len(flow_removed)]

\* The removal of an entry has just succeeded.
JustRemoved == removal_result = "removed" /\ LastSubmitted = "reinstall_confirm"

\* An entry is removed only once the form of reinstall_confirm is submitted.
RemovedOnlyOnConfirm == Len(flow_removed) <= Confirmations

\* A removal that fails aborts the flow with remove_failed: no entry is
\* created and the cached values are cleared.
FailedRemovalAborts ==
    removal_result \in { "HomeAssistantError", "False" } =>
        /\ flow_result = async_abort("remove_failed")
        /\ CreatedEntries = {}
        /\ _cached_existing_values = None
        /\ _reconfigure_entry = None

\* An entry is created only when the form of the user step is submitted.
CreatedOnlyOnUserForm ==
    (CreatedEntries # {} \/ flow_result.type = "create_entry") =>
        /\ LastSubmitted = "user"
        /\ flow_result.type = "create_entry"
        /\ Cardinality(CreatedEntries) = 1

\* C30 as stated: in the config flow an existing entry is removed only
\* after the user submits the reinstall_confirm step; a removal that fails
\* aborts the flow with remove_failed, creates no entry and clears the cached
\* values; after a successful removal the user form is shown with defaults
\* taken from the data and options of the removed entry; and an entry is
\* created only on submission of that form.
C30_ReinstallThenUserForm ==
    pc = "flow" =>
        /\ RemovedOnlyOnConfirm
        /\ FailedRemovalAborts
        /\ JustRemoved =>
               flow_result = async_show_form("user", Some(DefaultsTakenFrom(LastRemoved)))
        /\ CreatedOnlyOnUserForm

\* C30 amended: as stated, but after a successful removal the user form is
\* shown, with defaults taken from the removed entry, only when no entry of
\* the domain is left; when one is left the form of reinstall_confirm is
\* shown again, for the first entry left, whose values are cached.
C30_ReinstallEachEntry ==
    pc = "flow" =>
        /\ RemovedOnlyOnConfirm
        /\ FailedRemovalAborts
        /\ JustRemoved =>
               IF config_entries = << >>
               THEN /\ flow_result =
                          async_show_form("user", Some(DefaultsTakenFrom(LastRemoved)))
                    /\ _cached_existing_values = None
               ELSE /\ flow_result = async_show_form("reinstall_confirm", None)
                    /\ _reconfigure_entry = Some(config_entries[1].entry_id)
                    /\ _cached_existing_values # None
                    /\ _merge_defaults(_cached_existing_values)
                           = DefaultsTakenFrom(config_entries[1])
        /\ CreatedOnlyOnUserForm

\* Two entries were removed, each after its confirmation, and the user form
\* shows the values of the second, which are not the defaults of the
\* integration.
C30_Witness ==
    /\ pc = "flow"
    /\ Len(flow_removed) = 2
    /\ Confirmations = 2
    /\ config_entries = << >>
    /\ flow_result = async_show_form("user", Some(DefaultsTakenFrom(flow_removed[2])))
    /\ DefaultsTakenFrom(flow_removed[2]) # BASE_DEFAULTS
    /\ DefaultsTakenFrom(flow_removed[2]) # DefaultsTakenFrom(flow_removed[1])

(***************************************************************************)
(* The whole model: every call above, from any of its inputs.              *)
(***************************************************************************)
Init ==
    \/ InitReconcile \/ InitTotals \/ InitWalker \/ InitPeriod \/ InitBucket
    \/ InitDashboard \/ InitSensors \/ InitAdvice \/ InitCollect
    \/ InitPdf \/ InitBuilder \/ InitHandler \/ InitRequests \/ InitSetup
    \/ InitFlow

Next ==
    \/ PrepareConclusionSummary
    \/ CalculateTotals
    \/ ReconcileTotals
    \/ BuildMetrics
    \/ ResolvePeriod
    \/ SelectBucket
    \/ SelectDashboard
    \/ CollectSensorStatistics
    \/ GenerateAdvice
    \/ FinishAdvice
    \/ StartCollect
    \/ ResumeMetadata
    \/ ResumeRetry
    \/ ResumeStatistics
    \/ NextRequests
    \/ BuildPdf
    \/ FinalizeBuilder
    \/ HandleSelect
    \/ HandlePrepare
    \/ HandleCollected
    \/ HandleAdvised
    \/ HandleBuilt
    \/ NextSetup
    \/ NextFlow

Spec == Init /\ [][Next]_vars

====
